---- MODULE Spec2Model ----
(***************************************************************************)
(* A model of the luxbin mirror service (src/mirror_service.py) and of the *)
(* temporal-lock encoder of the immune service (src/immune_service.py).    *)
(*                                                                         *)
(* Python values are records [t, n, s]: t is the Python type, n the        *)
(* number (for an int, or the rank of a fixed-width hex string in          *)
(* lexicographic order), s the text of a literal string.  A byte string    *)
(* produced by json.dumps is the sequence of its JSON tokens, separators   *)
(* included, so that two texts are equal exactly when the sequences are.   *)
(***************************************************************************)
EXTENDS Integers, Sequences, FiniteSets, Bags, TLC

\* ------------------------------------------------------------ bounds
\* request slots served concurrently by the one event loop
NumSlots == 2
\* requests accepted in one run
MaxRequests == 3
\* clock ticks that may pass in one run
MaxTicks == 1
\* clock ticks per wall-clock second (time.time() is a float)
SubSec == 2
\* rows the table may hold when the service starts (written by earlier runs)
MaxPrior == 0
\* statements that may raise in one run
MaxDbErrors == 1

\* ------------------------------------------------------------ Python values
PyNone == [t |-> "none", n |-> 0, s |-> ""]
PyInt(v) == [t |-> "int", n |-> v, s |-> ""]
PyHex(v) == [t |-> "hex", n |-> v, s |-> ""]
PyStr(v) == [t |-> "str", n |-> 0, s |-> v]
PyObj(v) == [t |-> "obj", n |-> v, s |-> ""]

\* one item of a dict, in insertion order: a scalar value or a list of scalars
Item(k, v) == [key |-> k, list |-> FALSE, val |-> v, items |-> <<>>]
ListItem(k, vs) == [key |-> k, list |-> TRUE, val |-> PyNone, items |-> vs]

\* ------------------------------------------------------------ json
Punct(p) == [t |-> "punct", n |-> 0, s |-> p]
JsonNull == [t |-> "null", n |-> 0, s |-> ""]

\* the token json.dumps writes for a scalar: None becomes null
ScalarToken(v) == IF v.t = "none" THEN JsonNull ELSE v

\* the value json.loads reads from a scalar token: null becomes None
TokenScalar(tok) == IF tok.t = "null" THEN PyNone ELSE tok

\* lexicographic rank of the dict keys the service uses (str.__lt__)
KeyRank(k) ==
    CASE k = "chain" -> 1
      [] k = "hash" -> 2
      [] k = "height" -> 3
      [] k = "number" -> 4
      [] k = "time" -> 5
      [] k = "timestamp" -> 6
      [] k = "tx" -> 7
      [] k = "tx_count" -> 8
      [] OTHER -> 9

\* the place of item i of a dict among its items in key order: after the
\* items with a smaller key (a dict holds a key once)
KeyPlace(d, i) ==
    Cardinality({j \in 1..Len(d) : KeyRank(d[j].key) < KeyRank(d[i].key)
                                    \/ (KeyRank(d[j].key) = KeyRank(d[i].key) /\ j < i)}) + 1

\* sort_keys=True: the items in the order of their keys
SortKeys(d) ==
    [k \in 1..Len(d) |-> d[CHOOSE i \in 1..Len(d) : KeyPlace(d, i) = k]]

\* the scalars of a list with item_sep between them
JoinTokens(vs, item_sep) ==
    IF vs = <<>> THEN <<>>
    ELSE [i \in 1..(2 * Len(vs) - 1) |->
             IF i % 2 = 1 THEN ScalarToken(vs[(i + 1) \div 2]) ELSE Punct(item_sep)]

ItemTokens(it, item_sep, key_sep) ==
    <<PyStr(it.key), Punct(key_sep)>> \o
    (IF it.list
     THEN <<Punct("[")>> \o JoinTokens(it.items, item_sep) \o <<Punct("]")>>
     ELSE <<ScalarToken(it.val)>>)

RECURSIVE JoinItems(_, _, _)
JoinItems(d, item_sep, key_sep) ==
    IF d = <<>> THEN <<>>
    ELSE IF Len(d) = 1 THEN ItemTokens(d[1], item_sep, key_sep)
    ELSE ItemTokens(d[1], item_sep, key_sep) \o <<Punct(item_sep)>>
         \o JoinItems(Tail(d), item_sep, key_sep)

\* json.dumps(d, separators=(item_sep, key_sep), sort_keys=sort_keys)
json_dumps(d, item_sep, key_sep, sort_keys) ==
    <<Punct("{")>>
    \o JoinItems(IF sort_keys THEN SortKeys(d) ELSE d, item_sep, key_sep)
    \o <<Punct("}")>>

\* json.dumps(d): the default separators are (', ', ': '), keys in dict order
json_dumps_default(d) == json_dumps(d, ", ", ": ", FALSE)

IsItemSep(tok) == tok.t = "punct" /\ tok.s \in {",", ", "}

\* the position of the bracket closing the list opened before position i
ListEnd(toks, i) ==
    LET closing == {j \in i..Len(toks) : toks[j] = Punct("]")}
    IN  IF closing = {} THEN Len(toks) + 1
        ELSE CHOOSE j \in closing : \A k \in closing : j <= k

\* the scalars of a list, read from position i up to the closing bracket
LoadList(toks, i) ==
    LET scalars == SelectSeq(SubSeq(toks, i, ListEnd(toks, i) - 1),
                             LAMBDA tok : ~IsItemSep(tok))
    IN  [k \in 1..Len(scalars) |-> TokenScalar(scalars[k])]

\* the position after the separator, if there is one at position i
SkipSep(toks, i) == IF i <= Len(toks) /\ IsItemSep(toks[i]) THEN i + 1 ELSE i

\* the items of an object, read from position i (a key) up to the closing brace
RECURSIVE LoadItems(_, _)
LoadItems(toks, i) ==
    IF i + 2 > Len(toks) \/ toks[i] = Punct("}") THEN <<>>
    ELSE IF toks[i + 2] = Punct("[")
         THEN <<ListItem(toks[i].s, LoadList(toks, i + 3))>>
              \o LoadItems(toks, SkipSep(toks, ListEnd(toks, i + 3) + 1))
         ELSE <<Item(toks[i].s, TokenScalar(toks[i + 2]))>>
              \o LoadItems(toks, SkipSep(toks, i + 3))

\* json.loads(text): the dict, its keys in the order of the text
json_loads(toks) == LoadItems(toks, 2)

\* ------------------------------------------------------------ hashing
\* hashlib.sha256 is modelled by a deterministic digest of 64 lower-case hex
\* digits computed from the tokens of the text.
HexDigits == <<"0", "1", "2", "3", "4", "5", "6", "7",
               "8", "9", "a", "b", "c", "d", "e", "f">>

StrCode(s) ==
    CASE s = "" -> 0
      [] s = "{" -> 1
      [] s = "}" -> 2
      [] s = "[" -> 3
      [] s = "]" -> 4
      [] s = "," -> 5
      [] s = ":" -> 6
      [] s = ", " -> 7
      [] s = ": " -> 8
      [] s = "bitcoin" -> 9
      [] s = "ethereum" -> 10
      [] OTHER -> 10 + KeyRank(s)

TypeCode(t) ==
    CASE t = "punct" -> 1
      [] t = "null" -> 2
      [] t = "int" -> 3
      [] t = "hex" -> 4
      [] t = "str" -> 5
      [] OTHER -> 6

TokenCode(tok) == (TypeCode(tok.t) * 32 + StrCode(tok.s) + tok.n * 7) % 65521

\* what the token at position i adds to a digest: it depends on the token and
\* on its place
Term(toks, i) == ((TokenCode(toks[i]) + 1) * (1 + ((i * i * 31 + i * 17) % 8191))) % 65521

\* the digest state after the tokens are absorbed into the state acc: the sum
\* of their terms (the size of the bag that holds term i copies of position i)
Compress(acc, toks) ==
    LET counted == {i \in 1..Len(toks) : Term(toks, i) > 0}
    IN  (acc * 31 + BagCardinality([i \in counted |-> Term(toks, i)])) % 65521

\* the 64 hex digits of a digest: the four hex digits of its state, 16 times
hexdigest(h) ==
    [i \in 1..64 |->
        HexDigits[((h \div (IF i % 4 = 1 THEN 4096
                            ELSE IF i % 4 = 2 THEN 256
                            ELSE IF i % 4 = 3 THEN 16 ELSE 1)) % 16) + 1]]

\* _sha256d(data): sha256(sha256(data).digest()).hexdigest()
_sha256d(data) == hexdigest(Compress(Compress(7, data), <<Punct("}")>>))

\* ------------------------------------------------------------ canonical payload
\* A block description as the fetch adapter returns it: block.get(k) is
\* None for a key the upstream left out; tx is [] when the key is missing.
\* tx_count and chain are keys the dict may carry and the encoder never reads.
Block(height, hash, time, tx, tx_count, chain) ==
    [height |-> height, hash |-> hash, time |-> time, tx |-> tx, tx_count |-> tx_count,
     chain |-> chain]

\* str < str is defined; dict < dict raises TypeError
Comparable(a, b) == a.t = "hex" /\ b.t = "hex"

\* sorted() compares neighbours as soon as the list has two elements
CanSort(xs) == \A i \in 1..(Len(xs) - 1) : Comparable(xs[i], xs[i + 1])

\* the place of element i in the sorted list: after the smaller elements and
\* after the equal ones that come before it
SortedPlace(xs, i) ==
    Cardinality({j \in 1..Len(xs) : xs[j].n < xs[i].n
                                     \/ (xs[j].n = xs[i].n /\ j < i)}) + 1

\* a faulty encoder: the list is encoded in the order given
unsorted(xs) == xs

\* sorted(xs) of a list of strings: ascending, stable
sorted(xs) ==
    [k \in 1..Len(xs) |-> xs[CHOOSE i \in 1..Len(xs) : SortedPlace(xs, i) = k]]

Failure(e) == [ok |-> FALSE, value |-> <<>>, err |-> e]
Success(v) == [ok |-> TRUE, value |-> v, err |-> ""]

\* a faulty encoder: the count and the chain the block carries are kept
CompactPayloadDictCopied(block) ==
    LET tx_sorted == sorted(block.tx)
    IN  << Item("chain", IF block.chain = PyNone THEN PyStr("bitcoin") ELSE block.chain),
           Item("height", block.height),
           Item("hash", block.hash),
           Item("time", block.time),
           Item("tx_count", IF block.tx_count = PyNone THEN PyInt(Len(tx_sorted))
                            ELSE block.tx_count),
           ListItem("tx", tx_sorted) >>

\* the dict _compact_block_payload_bitcoin builds, in insertion order
CompactPayloadDict(block) ==
    LET tx_sorted == sorted(block.tx)
    IN  << Item("chain", PyStr("bitcoin")),
           Item("height", block.height),
           Item("hash", block.hash),
           Item("time", block.time),
           Item("tx_count", PyInt(Len(tx_sorted))),
           ListItem("tx", tx_sorted) >>

\* _compact_block_payload_bitcoin(block): the canonical bytes, or the
\* TypeError sorted() raises
_compact_block_payload_bitcoin(block) ==
    IF ~CanSort(block.tx) THEN Failure("TypeError")
    ELSE Success(json_dumps(CompactPayloadDict(block), ",", ":", TRUE))

\* ------------------------------------------------------------ temporal-lock encoder
\* A Python int is a sign and a little-endian magnitude in base 256, so that
\* 64-bit values are exact.
RECURSIVE Magnitude(_)
Magnitude(v) == IF v = 0 THEN <<>> ELSE <<v % 256>> \o Magnitude(v \div 256)

BigInt(v) == [neg |-> v < 0, mag |-> Magnitude(IF v < 0 THEN -v ELSE v)]

\* the number of bytes up to the last non-zero one
RECURSIVE SigLen(_)
SigLen(mag) ==
    IF mag = <<>> THEN 0
    ELSE IF mag[Len(mag)] # 0 THEN Len(mag)
    ELSE SigLen(SubSeq(mag, 1, Len(mag) - 1))

IsNegative(v) == v.neg /\ SigLen(v.mag) > 0

\* v modulo 256^width as width little-endian bytes (two's complement of a
\* negative v)
Wrapped(v, width) ==
    LET low == [i \in 1..width |-> IF i <= Len(v.mag) THEN v.mag[i] ELSE 0]
        nz == {i \in 1..width : low[i] # 0}
        k == CHOOSE i \in nz : \A j \in nz : i <= j
    IN  IF ~IsNegative(v) \/ nz = {} THEN low
        ELSE [i \in 1..width |-> IF i < k THEN 0
                                 ELSE IF i = k THEN 256 - low[i]
                                 ELSE 255 - low[i]]

\* a faulty encoder: the integer is masked to the width before it is packed
struct_pack_wrapping(width, v) == [ok |-> TRUE, value |-> Wrapped(v, width), err |-> ""]

\* a faulty encoder: the bytes are packed big-endian ('>Q', '>I')
struct_pack_big_endian(width, v) ==
    IF IsNegative(v) \/ SigLen(v.mag) > width
    THEN [ok |-> FALSE, value |-> <<>>, err |-> "struct.error"]
    ELSE [ok |-> TRUE,
          value |-> [i \in 1..width |->
                        IF width + 1 - i <= Len(v.mag) THEN v.mag[width + 1 - i] ELSE 0],
          err |-> ""]

\* struct.pack('<Q', v) with width 8, struct.pack('<I', v) with width 4:
\* the little-endian bytes, or struct.error when v is out of range
struct_pack(width, v) ==
    IF IsNegative(v) \/ SigLen(v.mag) > width THEN Failure("struct.error")
    ELSE Success([i \in 1..width |-> IF i <= Len(v.mag) THEN v.mag[i] ELSE 0])

\* the value of a hex digit, 16 or more for any other character
HexValue(c) ==
    CASE c = "0" -> 0 [] c = "1" -> 1 [] c = "2" -> 2 [] c = "3" -> 3
      [] c = "4" -> 4 [] c = "5" -> 5 [] c = "6" -> 6 [] c = "7" -> 7
      [] c = "8" -> 8 [] c = "9" -> 9
      [] c \in {"a", "A"} -> 10 [] c \in {"b", "B"} -> 11
      [] c \in {"c", "C"} -> 12 [] c \in {"d", "D"} -> 13
      [] c \in {"e", "E"} -> 14 [] c \in {"f", "F"} -> 15
      [] OTHER -> 16

IsSpace(c) == c = " "

\* bytes.fromhex(s): white space between the bytes is skipped, every byte is
\* two adjacent hex digits, anything else is a ValueError
bytes_fromhex(s) ==
    LET at == SelectSeq([i \in 1..Len(s) |-> i], LAMBDA i : ~IsSpace(s[i]))
        pairs == Len(at) \div 2
        wellformed ==
            /\ Len(at) % 2 = 0
            /\ \A k \in 1..Len(at) : HexValue(s[at[k]]) < 16
            /\ \A k \in 1..pairs : at[2 * k] = at[2 * k - 1] + 1
    IN  IF ~wellformed THEN Failure("ValueError")
        ELSE Success([k \in 1..pairs |->
                         16 * HexValue(s[at[2 * k - 1]]) + HexValue(s[at[2 * k]])])

startswith0x(s) == Len(s) >= 2 /\ s[1] = "0" /\ s[2] = "x"

\* a faulty encoder: s.rjust(width, '0'), the zeros are put in front
rjust(s, width) ==
    IF Len(s) >= width THEN s ELSE [i \in 1..(width - Len(s)) |-> "0"] \o s

\* s.ljust(width, '0')
ljust(s, width) ==
    IF Len(s) >= width THEN s ELSE s \o [i \in 1..(width - Len(s)) |-> "0"]

\* b[:n]
Prefix(b, n) == SubSeq(b, 1, IF Len(b) < n THEN Len(b) ELSE n)

\* A puzzle dict: keys are the keys present; an absent key reads as the
\* default of puzzle.get.
Puzzle(keys, reveal_time, depth, initial_hash) ==
    [keys |-> keys, reveal_time |-> reveal_time, hash_chain_depth |-> depth,
     initial_hash |-> initial_hash]

AllKeys == {"reveal_time", "hash_chain_depth", "initial_hash"}

\* the initial hash after the '0x' prefix is stripped
NormalizeHex(initial_hash_hex) ==
    IF startswith0x(initial_hash_hex)
    THEN SubSeq(initial_hash_hex, 3, Len(initial_hash_hex))
    ELSE initial_hash_hex

\* _scale_encode_temporal_lock(puzzle): the bytes, or the exception raised
\* (bytes.fromhex is evaluated before the two struct.pack calls)
_scale_encode_temporal_lock(puzzle) ==
    LET reveal_time == IF "reveal_time" \in puzzle.keys
                       THEN puzzle.reveal_time ELSE BigInt(0)
        depth == IF "hash_chain_depth" \in puzzle.keys
                 THEN puzzle.hash_chain_depth ELSE BigInt(0)
        given == IF "initial_hash" \in puzzle.keys THEN puzzle.initial_hash ELSE <<>>
        initial_hash_hex == NormalizeHex(given)
        decoded == bytes_fromhex(ljust(initial_hash_hex, 64))
        q == struct_pack(8, reveal_time)
        i == struct_pack(4, depth)
    IN  IF ~decoded.ok THEN decoded
        ELSE IF ~q.ok THEN q
        ELSE IF ~i.ok THEN i
        ELSE Success(q.value \o i.value \o Prefix(decoded.value, 32))

\* bytes.hex(): two lower-case hex digits per byte
bytes_hex(b) ==
    [i \in 1..(2 * Len(b)) |->
        LET byte == b[(i + 1) \div 2]
        IN  HexDigits[(IF i % 2 = 1 THEN byte \div 16 ELSE byte % 16) + 1]]

B64Alphabet ==
    << "A", "B", "C", "D", "E", "F", "G", "H", "I", "J", "K", "L", "M",
       "N", "O", "P", "Q", "R", "S", "T", "U", "V", "W", "X", "Y", "Z",
       "a", "b", "c", "d", "e", "f", "g", "h", "i", "j", "k", "l", "m",
       "n", "o", "p", "q", "r", "s", "t", "u", "v", "w", "x", "y", "z",
       "0", "1", "2", "3", "4", "5", "6", "7", "8", "9", "+", "/" >>

\* base64.b64encode(b).decode(): four characters for every three bytes, '='
\* where the last group lacks a byte
b64encode(b) ==
    [i \in 1..(4 * ((Len(b) + 2) \div 3)) |->
        LET g == 3 * ((i - 1) \div 4)
            b1 == b[g + 1]
            b2 == IF g + 2 <= Len(b) THEN b[g + 2] ELSE 0
            b3 == IF g + 3 <= Len(b) THEN b[g + 3] ELSE 0
        IN  CASE i % 4 = 1 -> B64Alphabet[(b1 \div 4) + 1]
              [] i % 4 = 2 -> B64Alphabet[((b1 % 4) * 16 + b2 \div 16) + 1]
              [] i % 4 = 3 -> IF g + 2 > Len(b) THEN "="
                              ELSE B64Alphabet[((b2 % 16) * 4 + b3 \div 64) + 1]
              [] OTHER -> IF g + 3 > Len(b) THEN "=" ELSE B64Alphabet[(b3 % 64) + 1]]

\* ------------------------------------------------------------ responses
\* web.json_response(...): the status and the fields of the body that is sent
NoResponse ==
    [status |-> 0, error |-> "", merkle_root |-> <<>>, mirrors |-> <<>>,
     puzzle |-> Puzzle({}, 0, 0, <<>>), scale_hex |-> <<>>, scale_b64 |-> <<>>]

ErrorResponse(status, error) == [NoResponse EXCEPT !.status = status, !.error = error]

\* the 500 aiohttp answers when a handler raises
UnhandledResponse == ErrorResponse(500, "Internal Server Error")

\* handle_encode_temporal_lock(request): body.valid says whether request.json()
\* parsed; 'temporal_lock' or the top level holds the puzzle
handle_encode_temporal_lock(body) ==
    IF ~body.valid THEN ErrorResponse(400, "invalid json")
    ELSE LET encoded == _scale_encode_temporal_lock(body.puzzle)
         IN  IF ~encoded.ok THEN ErrorResponse(500, "encode_failed")
             ELSE [NoResponse EXCEPT !.status = 200,
                                     !.scale_hex = <<"0", "x">> \o bytes_hex(encoded.value),
                                     !.scale_b64 = b64encode(encoded.value)]

\* ------------------------------------------------------------ state
VARIABLES
    env,              \* BITCOIN_RPC_URL, WEB3_URL, MOCK_BITCOIN as read at import
    clock,            \* the wall clock when it was last read, in ticks of 1/SubSec second
    mirrors,          \* the mirrors table as the shared connection sees it
    sqlite_sequence,  \* the AUTOINCREMENT counter of the table
    durable,          \* how many rows of the table are committed
    owner,            \* history: the number of the request that inserted each row
    dberrors,         \* history: how many statements have raised
    slot,             \* the requests being served: handler position and locals
    started,          \* requests accepted so far
    loop,             \* the slot whose handler blocks the event loop, or 0
    dbq,              \* aiosqlite's queue: slots whose statement awaits the db thread
    last,             \* history: the request answered last, and its response
    enc_in,           \* the body given to POST /encode_temporal_lock
    enc_out,          \* what _scale_encode_temporal_lock returned for it
    enc_resp,         \* what the handler answered for it
    blk_in,           \* a block given to the canonical payload encoder
    blk_perm,         \* the same block with its tx list permuted
    blk_out,          \* the encoder's results for blk_in and blk_perm
    threat_log,       \* immune.threat_log: the transaction of each ThreatData appended
    memory_storage,   \* memory_storage of the memory cell that learns, in insertion order
    threats,          \* the threats table of the immune service
    saved_by,         \* history: the number of the request that inserted each threats row
    detected,         \* history: the requests whose monitoring appended to threat_log
    responses,        \* the responses table
    memories,         \* the memories table
    txn,              \* the POST /transaction requests being served
    txn_started,      \* POST /transaction requests accepted so far
    txn_dbq,          \* aiosqlite's queue of the immune service's connection
    txn_dberrors,     \* history: how many of its statements have raised
    txn_last          \* history: the POST /transaction request answered last

vars == <<env, clock, mirrors, sqlite_sequence, durable, owner, dberrors, slot, started, loop, dbq,
          last, enc_in, enc_out, enc_resp, blk_in, blk_perm, blk_out,
          threat_log, memory_storage, threats, saved_by, detected, responses, memories,
          txn, txn_started, txn_dbq, txn_dberrors, txn_last>>

mirror_vars ==
    <<env, clock, mirrors, sqlite_sequence, durable, owner, dberrors, slot, started, loop, dbq,
      last>>
enc_vars == <<enc_in, enc_out, enc_resp>>
blk_vars == <<blk_in, blk_perm, blk_out>>
imm_vars ==
    <<threat_log, memory_storage, threats, saved_by, detected, responses, memories,
      txn, txn_started, txn_dbq, txn_dberrors, txn_last>>

Slots == 1..NumSlots

\* the first instant of the run: the last tick before the wall clock reaches
\* second 1,000,000, where the mock adapter's height wraps around
StartClock == 999999 * SubSec + (SubSec - 1)

\* time.time() returns t / SubSec for a tick t not before the last one read
Now == clock..(StartClock + MaxTicks)

\* int(x) of a float of t ticks drops the fraction
int_time(t) == t \div SubSec

\* ------------------------------------------------------------ rows
Row(id, chain, block_number, block_hash, merkle_root, timestamp, payload) ==
    [id |-> id, chain |-> chain, block_number |-> block_number,
     block_hash |-> block_hash, merkle_root |-> merkle_root,
     timestamp |-> timestamp, payload |-> payload]

NoRow == Row(0, "", PyNone, PyNone, <<>>, 0, <<>>)

\* the parameters store_mirror_entry binds to its INSERT, built when it is
\* called: time.time() is read and the payload dict serialized at that moment
InsertParams(chain, block_number, block_hash, merkle_root, payload, now) ==
    Row(0, chain, block_number, block_hash, merkle_root, now, json_dumps_default(payload))

\* ------------------------------------------------------------ fetch adapters
\* hashlib.sha256(text).hexdigest() of the mock's texts "block-{now}" (i = 0)
\* and "tx-{now}-{i}": one hex string per text, in no particular order
MockDigest(now, i) == PyHex(now * 6 + ((i * 2) % 5) + (IF i = 0 THEN 0 ELSE 1))

\* the fake block of mock mode
MockBlock(t) ==
    LET now == int_time(t)
    IN  Block(PyInt(now % 1000000), MockDigest(now, 0), PyInt(now),
              [i \in 1..5 |-> MockDigest(now, i)], PyNone, PyNone)

\* what getblock may answer with a success status
GoodBlock == Block(PyInt(8), PyHex(80), PyInt(1000), <<PyHex(3), PyHex(1), PyHex(2)>>, PyInt(3),
                   PyNone)
BareBlock == Block(PyNone, PyNone, PyNone, <<>>, PyNone, PyNone)
VerboseBlock == Block(PyInt(9), PyHex(90), PyInt(1001), <<PyObj(1), PyObj(2)>>, PyInt(2),
                      PyNone)
UpstreamBlocks == {GoodBlock, BareBlock, VerboseBlock}

\* what w3.eth.get_block('latest') may return
EthBlock(number, hash, timestamp, ntx) ==
    [number |-> number, hash |-> hash, timestamp |-> timestamp, ntx |-> ntx]
EthBlocks == {EthBlock(PyInt(5), PyHex(50), PyInt(900), 2)}

\* the payload dict trigger_ethereum_fetch builds, in insertion order
EthereumPayloadDict(latest) ==
    << Item("chain", PyStr("ethereum")),
       Item("number", latest.number),
       Item("hash", latest.hash),
       Item("timestamp", latest.timestamp),
       Item("tx_count", PyInt(latest.ntx)) >>

\* ------------------------------------------------------------ requests
\* A request being served: which handler, where it is suspended (pc), whether
\* the statement it awaits has been run by the db thread (ready) and raised
\* (dberr), and the handler's locals.  req numbers the requests in the order
\* they arrive; seen is the history of the ids the table held when a request
\* for one row arrived, steps that of the pipeline stages the request has
\* passed, and cause, for a request that failed, the stage that failed.
EmptySlot ==
    [kind |-> "none", req |-> 0, pc |-> "idle", ready |-> FALSE, dberr |-> FALSE,
     mid |-> 0, params |-> NoRow, rows |-> <<>>, resp |-> NoResponse,
     seen |-> {}, steps |-> <<>>, cause |-> ""]

NewRequest(kind) == [EmptySlot EXCEPT !.kind = kind, !.req = started + 1]

IsFree(r) == slot[r].pc = "idle"

\* a request is accepted when a slot is free (the first free one is taken) and
\* the event loop is not blocked
Free(r) ==
    /\ IsFree(r)
    /\ \A q \in 1..(r - 1) : ~IsFree(q)
    /\ loop = 0
    /\ started < MaxRequests

\* the handler returns resp
Respond(s, resp) == [s EXCEPT !.pc = "done", !.ready = FALSE, !.resp = resp]

\* the handler returns the response of a failure at the stage named cause
Fail(s, cause, resp) == [Respond(s, resp) EXCEPT !.cause = cause]

\* the handler awaits a statement: it is queued for the db thread
Await(s, pc) == [s EXCEPT !.pc = pc, !.ready = FALSE, !.dberr = FALSE]

\* the handler is resumed after the statement it awaits at pc
Resumed(r, pc) == slot[r].pc = pc /\ slot[r].ready /\ loop = 0

\* what is kept of a request that was answered
Sent(s) ==
    [kind |-> s.kind, req |-> s.req, mid |-> s.mid, resp |-> s.resp,
     seen |-> s.seen, steps |-> s.steps, cause |-> s.cause]

NothingSent == Sent(EmptySlot)

\* a step of the handler in slot r leaves it as s: suspended at an await, its
\* statement queued, or answered, the slot free again
HandlerStep(r, s) ==
    /\ slot' = [slot EXCEPT ![r] = IF s.pc = "done" THEN EmptySlot ELSE s]
    /\ last' = IF s.pc = "done" THEN Sent(s) ELSE last
    /\ dbq' = IF s.pc \in {"insert", "commit", "select", "fetch"} THEN Append(dbq, r) ELSE dbq
    /\ loop' = IF s.pc \in {"rpc1", "rpc2", "rpc"} THEN r ELSE 0

\* a faulty handler: the row is handed to the store before its anchor is computed
BitcoinInsertParamsNoAnchor(block, payload_bytes, now) ==
    InsertParams("bitcoin", block.height, block.hash, <<>>,
                 json_loads(payload_bytes), now)

\* trigger_bitcoin_fetch, lines 142-144: the hash of the canonical bytes, and
\* the call of store_mirror_entry up to its first await
BitcoinInsertParams(block, payload_bytes, now) ==
    InsertParams("bitcoin", block.height, block.hash, _sha256d(payload_bytes),
                 json_loads(payload_bytes), now)

\* trigger_bitcoin_fetch after the adapter returned, lines 141-144:
\* canonicalize (sorted() may raise), then hash and store
AfterBitcoinFetch(s, block, now) ==
    LET payload == _compact_block_payload_bitcoin(block)
    IN  IF ~payload.ok
        THEN [Fail(s, "canonicalize", UnhandledResponse) EXCEPT !.steps = <<"fetch">>]
        ELSE [Await(s, "insert") EXCEPT
                 !.params = BitcoinInsertParams(block, payload.value, now),
                 !.steps = <<"fetch", "canonicalize", "anchor">>]

\* POST /mirror/bitcoin/fetch arrives in mock mode: the adapter reads the
\* clock and returns the fake block at once, and the handler runs on to its
\* first await, where store_mirror_entry has read the clock again
BtcStartMock(r) ==
    /\ Free(r)
    /\ env.mock
    /\ started' = started + 1
    /\ \E t1 \in Now : \E t2 \in t1..(StartClock + MaxTicks) :
          /\ HandlerStep(r, AfterBitcoinFetch(NewRequest("bitcoin"), MockBlock(t1), t2))
          /\ clock' = t2
    /\ UNCHANGED <<env, mirrors, sqlite_sequence, durable, owner, dberrors>>
    /\ UNCHANGED <<enc_vars, blk_vars, imm_vars>>

\* POST /mirror/bitcoin/fetch arrives, mock mode off: without an endpoint the
\* adapter raises; otherwise the handler blocks the event loop in
\* requests.post (getbestblockhash)
BtcStart(r) ==
    /\ Free(r)
    /\ ~env.mock
    /\ started' = started + 1
    /\ LET s == NewRequest("bitcoin")
       IN  HandlerStep(r, IF ~env.bitcoin_rpc_url
                          THEN Fail(s, "config", ErrorResponse(500, "BITCOIN_RPC_URL not set"))
                          ELSE [s EXCEPT !.pc = "rpc1"])
    /\ UNCHANGED <<env, clock, mirrors, sqlite_sequence, durable, owner, dberrors>>
    /\ UNCHANGED <<enc_vars, blk_vars, imm_vars>>

\* getbestblockhash fails: no connection, a status raise_for_status rejects,
\* or a reply without 'result'
BtcRpc1Fails(r) ==
    /\ loop = r /\ slot[r].pc = "rpc1"
    /\ HandlerStep(r, Fail(slot[r], "rpc1", ErrorResponse(500, "upstream")))
    /\ UNCHANGED <<env, clock, mirrors, sqlite_sequence, durable, owner, dberrors, started>>
    /\ UNCHANGED <<enc_vars, blk_vars, imm_vars>>

\* getbestblockhash answers; the handler blocks in the second requests.post
BtcRpc1Ok(r) ==
    /\ loop = r /\ slot[r].pc = "rpc1"
    /\ HandlerStep(r, [slot[r] EXCEPT !.pc = "rpc2"])
    /\ UNCHANGED <<env, clock, mirrors, sqlite_sequence, durable, owner, dberrors, started>>
    /\ UNCHANGED <<enc_vars, blk_vars, imm_vars>>

\* a faulty handler: it has stored a row without anchor or payload before the
\* adapter's second call fails
BtcRpc2StoresThenFails(r) ==
    /\ loop = r /\ slot[r].pc = "rpc2"
    /\ HandlerStep(r, Fail(slot[r], "rpc2", ErrorResponse(500, "upstream")))
    /\ mirrors' = Append(mirrors, [NoRow EXCEPT !.id = sqlite_sequence + 1])
    /\ sqlite_sequence' = sqlite_sequence + 1
    /\ owner' = Append(owner, slot[r].req)
    /\ UNCHANGED <<env, clock, durable, dberrors, started>>
    /\ UNCHANGED <<enc_vars, blk_vars, imm_vars>>

\* getblock fails
BtcRpc2Fails(r) ==
    /\ loop = r /\ slot[r].pc = "rpc2"
    /\ HandlerStep(r, Fail(slot[r], "rpc2", ErrorResponse(500, "upstream")))
    /\ UNCHANGED <<env, clock, mirrors, sqlite_sequence, durable, owner, dberrors, started>>
    /\ UNCHANGED <<enc_vars, blk_vars, imm_vars>>

\* getblock answers with a block; the handler runs on to its first await
BtcRpc2Ok(r) ==
    /\ loop = r /\ slot[r].pc = "rpc2"
    /\ \E block \in UpstreamBlocks, now \in Now :
          /\ HandlerStep(r, AfterBitcoinFetch(slot[r], block, now))
          /\ clock' = now
    /\ UNCHANGED <<env, mirrors, sqlite_sequence, durable, owner, dberrors, started>>
    /\ UNCHANGED <<enc_vars, blk_vars, imm_vars>>

\* store_mirror_entry resumes after its INSERT: it awaits db.commit(), or the
\* INSERT raised and the exception leaves the handler
BtcInserted(r) ==
    /\ slot[r].kind = "bitcoin" /\ Resumed(r, "insert")
    /\ HandlerStep(r, IF slot[r].dberr THEN Fail(slot[r], "insert", UnhandledResponse)
                      ELSE Await(slot[r], "commit"))
    /\ UNCHANGED <<env, clock, mirrors, sqlite_sequence, durable, owner, dberrors, started>>
    /\ UNCHANGED <<enc_vars, blk_vars, imm_vars>>

\* the 200 of a fetch handler
FetchOk(s) == Respond(s, [NoResponse EXCEPT !.status = 200,
                                            !.merkle_root = s.params.merkle_root])

\* store_mirror_entry returns after its commit and the handler answers
BtcCommitted(r) ==
    /\ slot[r].kind = "bitcoin" /\ Resumed(r, "commit")
    /\ HandlerStep(r, IF slot[r].dberr THEN Fail(slot[r], "commit", UnhandledResponse)
                      ELSE FetchOk(slot[r]))
    /\ UNCHANGED <<env, clock, mirrors, sqlite_sequence, durable, owner, dberrors, started>>
    /\ UNCHANGED <<enc_vars, blk_vars, imm_vars>>

\* trigger_ethereum_fetch, lines 155-165: the payload dict, its canonical
\* bytes, the hash, and the call of store_mirror_entry up to its first await
EthereumInsertParams(latest, now) ==
    LET payload == EthereumPayloadDict(latest)
        payload_bytes == json_dumps(payload, ",", ":", TRUE)
        merkle_root == _sha256d(payload_bytes)
    IN  InsertParams("ethereum", latest.number, latest.hash, merkle_root, payload, now)

\* POST /mirror/ethereum/fetch arrives: 400 without WEB3_URL, otherwise the
\* handler blocks the event loop in w3.eth.get_block
EthStart(r) ==
    /\ Free(r)
    /\ started' = started + 1
    /\ LET s == NewRequest("ethereum")
       IN  HandlerStep(r, IF ~env.web3_url
                          THEN Fail(s, "config", ErrorResponse(400, "WEB3_URL not configured"))
                          ELSE [s EXCEPT !.pc = "rpc"])
    /\ UNCHANGED <<env, clock, mirrors, sqlite_sequence, durable, owner, dberrors>>
    /\ UNCHANGED <<enc_vars, blk_vars, imm_vars>>

\* web3 is not installed or get_block raises: the except clause answers 500
EthRpcFails(r) ==
    /\ loop = r /\ slot[r].pc = "rpc"
    /\ HandlerStep(r, Fail(slot[r], "rpc", ErrorResponse(500, "upstream")))
    /\ UNCHANGED <<env, clock, mirrors, sqlite_sequence, durable, owner, dberrors, started>>
    /\ UNCHANGED <<enc_vars, blk_vars, imm_vars>>

\* get_block returns the latest block; the handler runs on to its first await
EthRpcOk(r) ==
    /\ loop = r /\ slot[r].pc = "rpc"
    /\ \E latest \in EthBlocks, now \in Now :
          /\ HandlerStep(r, [Await(slot[r], "insert") EXCEPT
                                 !.params = EthereumInsertParams(latest, now),
                                 !.steps = <<"fetch", "canonicalize", "anchor">>])
          /\ clock' = now
    /\ UNCHANGED <<env, mirrors, sqlite_sequence, durable, owner, dberrors, started>>
    /\ UNCHANGED <<enc_vars, blk_vars, imm_vars>>

\* store_mirror_entry resumes after its INSERT, inside the handler's try
EthInserted(r) ==
    /\ slot[r].kind = "ethereum" /\ Resumed(r, "insert")
    /\ HandlerStep(r, IF slot[r].dberr
                      THEN Fail(slot[r], "insert", ErrorResponse(500, "storage"))
                      ELSE Await(slot[r], "commit"))
    /\ UNCHANGED <<env, clock, mirrors, sqlite_sequence, durable, owner, dberrors, started>>
    /\ UNCHANGED <<enc_vars, blk_vars, imm_vars>>

\* store_mirror_entry returns after its commit and the handler answers
EthCommitted(r) ==
    /\ slot[r].kind = "ethereum" /\ Resumed(r, "commit")
    /\ HandlerStep(r, IF slot[r].dberr
                      THEN Fail(slot[r], "commit", ErrorResponse(500, "storage"))
                      ELSE FetchOk(slot[r]))
    /\ UNCHANGED <<env, clock, mirrors, sqlite_sequence, durable, owner, dberrors, started>>
    /\ UNCHANGED <<enc_vars, blk_vars, imm_vars>>

\* ------------------------------------------------------------ read handlers
ListLimit == 100
RevealDelay == 300
HashChainDepth == 1000

\* ORDER BY id DESC: the rows, a greater id first
OrderByIdDesc(rows) == SortSeq(rows, LAMBDA a, b : a.id > b.id)

\* a faulty query: ORDER BY id DESC is left out, the rows come in rowid order
SelectListOldest(table) == Prefix(table, ListLimit)

\* SELECT ... FROM mirrors ORDER BY id DESC LIMIT 100
SelectList(table) == Prefix(OrderByIdDesc(table), ListLimit)

\* SELECT ... FROM mirrors WHERE id = ?
SelectById(table, mid) == SelectSeq(table, LAMBDA row : row.id = mid)

\* the dict list_mirrors builds of a row: every column but the payload
Listed(row) ==
    [id |-> row.id, chain |-> row.chain, block_number |-> row.block_number,
     block_hash |-> row.block_hash, merkle_root |-> row.merkle_root,
     timestamp |-> row.timestamp]

\* GET /mirrors arrives: the handler awaits db.execute(SELECT)
ListStart(r) ==
    /\ Free(r)
    /\ started' = started + 1
    /\ HandlerStep(r, Await(NewRequest("list"), "select"))
    /\ UNCHANGED <<env, clock, mirrors, sqlite_sequence, durable, owner, dberrors>>
    /\ UNCHANGED <<enc_vars, blk_vars, imm_vars>>

\* the handler resumes with the cursor and awaits cur.fetchall()
ListSelected(r) ==
    /\ slot[r].kind = "list" /\ Resumed(r, "select")
    /\ HandlerStep(r, Await(slot[r], "fetch"))
    /\ UNCHANGED <<env, clock, mirrors, sqlite_sequence, durable, owner, dberrors, started>>
    /\ UNCHANGED <<enc_vars, blk_vars, imm_vars>>

\* the handler resumes with the rows and answers
ListFetched(r) ==
    /\ slot[r].kind = "list" /\ Resumed(r, "fetch")
    /\ HandlerStep(r, Respond(slot[r],
                       [NoResponse EXCEPT
                           !.status = 200,
                           !.mirrors = [i \in 1..Len(slot[r].rows) |-> Listed(slot[r].rows[i])]]))
    /\ UNCHANGED <<env, clock, mirrors, sqlite_sequence, durable, owner, dberrors, started>>
    /\ UNCHANGED <<enc_vars, blk_vars, imm_vars>>

\* GET /mirror/{id}/temporal arrives with an id that int() reads: the handler
\* awaits db.execute(SELECT)
TemporalStart(r) ==
    /\ Free(r)
    /\ started' = started + 1
    /\ \E mid \in 1..(Len(mirrors) + 1) :
          HandlerStep(r, Await([NewRequest("temporal") EXCEPT
                                    !.mid = mid,
                                    !.seen = {mirrors[i].id : i \in 1..Len(mirrors)}],
                               "select"))
    /\ UNCHANGED <<env, clock, mirrors, sqlite_sequence, durable, owner, dberrors>>
    /\ UNCHANGED <<enc_vars, blk_vars, imm_vars>>

\* GET /mirror/{id}/temporal arrives with an id that is no integer: int() raises
TemporalBadId(r) ==
    /\ Free(r)
    /\ started' = started + 1
    /\ HandlerStep(r, Fail(NewRequest("temporal"), "path", UnhandledResponse))
    /\ UNCHANGED <<env, clock, mirrors, sqlite_sequence, durable, owner, dberrors>>
    /\ UNCHANGED <<enc_vars, blk_vars, imm_vars>>

\* the handler resumes with the cursor and awaits cur.fetchone()
TemporalSelected(r) ==
    /\ slot[r].kind = "temporal" /\ Resumed(r, "select")
    /\ HandlerStep(r, Await(slot[r], "fetch"))
    /\ UNCHANGED <<env, clock, mirrors, sqlite_sequence, durable, owner, dberrors, started>>
    /\ UNCHANGED <<enc_vars, blk_vars, imm_vars>>

\* a faulty handler: the timestamp is rounded to the nearest second
TemporalResponseRounded(row) ==
    LET reveal_time == ((2 * row.timestamp + SubSec) \div (2 * SubSec)) + RevealDelay
        encoded == _scale_encode_temporal_lock(
                       Puzzle(AllKeys, BigInt(reveal_time), BigInt(HashChainDepth),
                              row.merkle_root))
    IN  IF ~encoded.ok THEN UnhandledResponse
        ELSE [NoResponse EXCEPT
                 !.status = 200,
                 !.puzzle = Puzzle(AllKeys, reveal_time, HashChainDepth, row.merkle_root),
                 !.scale_hex = <<"0", "x">> \o bytes_hex(encoded.value),
                 !.scale_b64 = b64encode(encoded.value)]

\* mirror_temporal_lock, lines 175-186, for the row that was read
TemporalResponse(row) ==
    LET reveal_time == int_time(row.timestamp) + RevealDelay
        encoded == _scale_encode_temporal_lock(
                       Puzzle(AllKeys, BigInt(reveal_time), BigInt(HashChainDepth),
                              row.merkle_root))
    IN  IF ~encoded.ok THEN UnhandledResponse
        ELSE [NoResponse EXCEPT
                 !.status = 200,
                 !.puzzle = Puzzle(AllKeys, reveal_time, HashChainDepth, row.merkle_root),
                 !.scale_hex = <<"0", "x">> \o bytes_hex(encoded.value),
                 !.scale_b64 = b64encode(encoded.value)]

\* the handler resumes with the row, or with none, and answers
TemporalFetched(r) ==
    /\ slot[r].kind = "temporal" /\ Resumed(r, "fetch")
    /\ HandlerStep(r, IF slot[r].rows = <<>>
                      THEN Fail(slot[r], "not found", ErrorResponse(404, "not found"))
                      ELSE Respond(slot[r], TemporalResponse(slot[r].rows[1])))
    /\ UNCHANGED <<env, clock, mirrors, sqlite_sequence, durable, owner, dberrors, started>>
    /\ UNCHANGED <<enc_vars, blk_vars, imm_vars>>

\* ------------------------------------------------------------ the db thread
\* aiosqlite runs the queued statements one at a time, in the order they were
\* submitted, on its own thread: beside the event loop, also while a handler
\* blocks the loop.
DbHead(pc) == dbq # <<>> /\ slot[Head(dbq)].pc = pc /\ ~slot[Head(dbq)].ready

\* the largest rowid of the table, 0 for an empty one
MaxRowId(table) ==
    LET ids == {table[i].id : i \in 1..Len(table)}
    IN  IF ids = {} THEN 0 ELSE CHOOSE m \in ids : \A k \in ids : k <= m

\* a faulty store: the id is one more than the number of committed rows
CommittedRowId == durable + 1

\* INTEGER PRIMARY KEY AUTOINCREMENT: one more than the largest id ever used
NextRowId ==
    (IF sqlite_sequence > MaxRowId(mirrors) THEN sqlite_sequence ELSE MaxRowId(mirrors)) + 1

\* a faulty store: INSERT OR REPLACE keyed by chain, the row of the chain is
\* overwritten
DbInsertOrReplace ==
    /\ DbHead("insert")
    /\ LET r == Head(dbq)
           row == [slot[r].params EXCEPT !.id = NextRowId]
           kept == SelectSeq(mirrors, LAMBDA old : old.chain # row.chain)
           keptOwner == [i \in 1..Len(kept) |-> owner[CHOOSE j \in 1..Len(mirrors) : mirrors[j] = kept[i]]]
       IN  /\ mirrors' = Append(kept, row)
           /\ sqlite_sequence' = NextRowId
           /\ owner' = Append(keptOwner, slot[r].req)
           /\ slot' = [slot EXCEPT ![r].ready = TRUE, ![r].steps = Append(@, "append")]
    /\ dbq' = Tail(dbq)
    /\ UNCHANGED <<env, clock, durable, dberrors, started, loop, last>>
    /\ UNCHANGED <<enc_vars, blk_vars, imm_vars>>

\* a faulty store: UNIQUE (chain, block_number) with INSERT OR IGNORE, a second
\* row of the same chain and height is dropped
DbInsertUnique ==
    /\ DbHead("insert")
    /\ LET r == Head(dbq)
           row == [slot[r].params EXCEPT !.id = NextRowId]
           dup == \E i \in 1..Len(mirrors) :
                     /\ mirrors[i].chain = row.chain
                     /\ mirrors[i].block_number = row.block_number
       IN  /\ mirrors' = IF dup THEN mirrors ELSE Append(mirrors, row)
           /\ sqlite_sequence' = IF dup THEN sqlite_sequence ELSE NextRowId
           /\ owner' = IF dup THEN owner ELSE Append(owner, slot[r].req)
           /\ slot' = [slot EXCEPT ![r].ready = TRUE, ![r].steps = Append(@, "append")]
    /\ dbq' = Tail(dbq)
    /\ UNCHANGED <<env, clock, durable, dberrors, started, loop, last>>
    /\ UNCHANGED <<enc_vars, blk_vars, imm_vars>>

\* the INSERT of store_mirror_entry runs
DbInsert ==
    /\ DbHead("insert")
    /\ LET r == Head(dbq)
       IN  /\ mirrors' = Append(mirrors, [slot[r].params EXCEPT !.id = NextRowId])
           /\ sqlite_sequence' = NextRowId
           /\ owner' = Append(owner, slot[r].req)
           /\ slot' = [slot EXCEPT ![r].ready = TRUE, ![r].steps = Append(@, "append")]
    /\ dbq' = Tail(dbq)
    /\ UNCHANGED <<env, clock, durable, dberrors, started, loop, last>>
    /\ UNCHANGED <<enc_vars, blk_vars, imm_vars>>

\* the INSERT raises (the database is locked, the disk is full): no row
DbInsertFails ==
    /\ dberrors < MaxDbErrors
    /\ dberrors' = dberrors + 1
    /\ DbHead("insert")
    /\ slot' = [slot EXCEPT ![Head(dbq)].ready = TRUE, ![Head(dbq)].dberr = TRUE]
    /\ dbq' = Tail(dbq)
    /\ UNCHANGED <<env, clock, mirrors, sqlite_sequence, durable, owner, started, loop, last>>
    /\ UNCHANGED <<enc_vars, blk_vars, imm_vars>>

\* db.commit() runs: every row of the connection is committed
DbCommit ==
    /\ DbHead("commit")
    /\ durable' = Len(mirrors)
    /\ slot' = [slot EXCEPT ![Head(dbq)].ready = TRUE]
    /\ dbq' = Tail(dbq)
    /\ UNCHANGED <<env, clock, mirrors, sqlite_sequence, owner, dberrors, started, loop, last>>
    /\ UNCHANGED <<enc_vars, blk_vars, imm_vars>>

\* db.commit() raises: the transaction stays open
DbCommitFails ==
    /\ dberrors < MaxDbErrors
    /\ dberrors' = dberrors + 1
    /\ DbHead("commit")
    /\ slot' = [slot EXCEPT ![Head(dbq)].ready = TRUE, ![Head(dbq)].dberr = TRUE]
    /\ dbq' = Tail(dbq)
    /\ UNCHANGED <<env, clock, mirrors, sqlite_sequence, durable, owner, started, loop, last>>
    /\ UNCHANGED <<enc_vars, blk_vars, imm_vars>>

\* a SELECT runs: the rows it will yield are those of the table now
DbSelect ==
    /\ DbHead("select")
    /\ LET r == Head(dbq)
       IN  slot' = [slot EXCEPT
                       ![r].ready = TRUE,
                       ![r].rows = IF slot[r].kind = "list" THEN SelectList(mirrors)
                                   ELSE SelectById(mirrors, slot[r].mid)]
    /\ dbq' = Tail(dbq)
    /\ UNCHANGED <<env, clock, mirrors, sqlite_sequence, durable, owner, dberrors, started, loop, last>>
    /\ UNCHANGED <<enc_vars, blk_vars, imm_vars>>

\* cur.fetchall() or cur.fetchone() runs
DbFetch ==
    /\ DbHead("fetch")
    /\ slot' = [slot EXCEPT ![Head(dbq)].ready = TRUE]
    /\ dbq' = Tail(dbq)
    /\ UNCHANGED <<env, clock, mirrors, sqlite_sequence, durable, owner, dberrors, started, loop, last>>
    /\ UNCHANGED <<enc_vars, blk_vars, imm_vars>>

\* ------------------------------------------------------------ the mirror service
\* a row an earlier run of the service left in the table (a mock fetch)
PriorRow(i) ==
    LET t == StartClock - 2 * ListLimit + i
    IN  [AfterBitcoinFetch([EmptySlot EXCEPT !.kind = "bitcoin"], MockBlock(t), t).params
            EXCEPT !.id = i]

NoBody == [valid |-> FALSE, puzzle |-> Puzzle({}, BigInt(0), BigInt(0), <<>>)]
NotCalled == [ok |-> FALSE, value |-> <<>>, err |-> "not called"]
NoBlock == Block(PyNone, PyNone, PyNone, <<>>, PyNone, PyNone)

EncIdle == enc_in = NoBody /\ enc_out = NotCalled /\ enc_resp = NoResponse
BlkIdle == blk_in = NoBlock /\ blk_perm = NoBlock /\ blk_out = <<>>

\* A POST /transaction being served: where it is suspended (pc), whether the
\* statement it awaits has run (ready) and raised (dberr), and the handler's
\* locals: result ("FLAG" for a dict the monitor returned, "None" for None),
\* last_threat, the dict iterator (di_used, the size of the dict when the
\* iteration began, and di_pos, the items passed), signature and memory (the
\* keys of the dict save_memory reads), row and existing as fetched, and the
\* status of the answer.  cause and written are history: what the handler
\* raised or its except clause caught, and how many save_memory calls of the
\* request had returned by then.
EmptyTxn ==
    [req |-> 0, pc |-> "idle", ready |-> FALSE, dberr |-> FALSE, result |-> "",
     last_threat |-> 0, di_used |-> 0, di_pos |-> 0, signature |-> 0,
     memory |-> [first_seen |-> 0, last_seen |-> 0, occurrence_count |-> 0],
     row |-> FALSE,
     existing |-> [found |-> FALSE, last_seen |-> 0, occurrence_count |-> 0],
     cause |-> "", written |-> 0, status |-> 0]

ImmIdle ==
    /\ threat_log = <<>> /\ memory_storage = <<>>
    /\ threats = <<>> /\ saved_by = <<>> /\ detected = {}
    /\ responses = <<>> /\ memories = <<>>
    /\ txn = [r \in Slots |-> EmptyTxn]
    /\ txn_started = 0 /\ txn_dbq = <<>> /\ txn_dberrors = 0
    /\ txn_last = EmptyTxn

\* The environment at import: MOCK_BITCOIN set, BITCOIN_RPC_URL set, WEB3_URL
\* set.  Each handler reads its own options only, so three deployments show
\* every configuration of every handler: the mock adapter with an Ethereum
\* node, a Bitcoin node with an Ethereum node, and nothing configured.
Env(mock, bitcoin_rpc_url, web3_url) ==
    [mock |-> mock, bitcoin_rpc_url |-> bitcoin_rpc_url, web3_url |-> web3_url]

Deployments == {Env(TRUE, FALSE, TRUE), Env(FALSE, TRUE, TRUE), Env(FALSE, FALSE, FALSE)}

\* create_app has run: the table exists, with the rows of earlier runs
MirrorInit ==
    /\ env \in Deployments
    /\ clock = StartClock
    /\ \E k \in 0..MaxPrior :
          /\ mirrors = [i \in 1..k |-> PriorRow(i)]
          /\ sqlite_sequence = k
          /\ durable = k
          /\ owner = [i \in 1..k |-> 0]
    /\ dberrors = 0
    /\ slot = [r \in Slots |-> EmptySlot]
    /\ started = 0
    /\ loop = 0
    /\ dbq = <<>>
    /\ last = NothingSent

Init == MirrorInit /\ EncIdle /\ BlkIdle /\ ImmIdle

Next ==
    \/ \E r \in Slots : BtcStartMock(r)
    \/ \E r \in Slots : BtcStart(r)
    \/ \E r \in Slots : BtcRpc1Fails(r)
    \/ \E r \in Slots : BtcRpc1Ok(r)
    \/ \E r \in Slots : BtcRpc2Fails(r)
    \/ \E r \in Slots : BtcRpc2Ok(r)
    \/ \E r \in Slots : BtcInserted(r)
    \/ \E r \in Slots : BtcCommitted(r)
    \/ \E r \in Slots : EthStart(r)
    \/ \E r \in Slots : EthRpcFails(r)
    \/ \E r \in Slots : EthRpcOk(r)
    \/ \E r \in Slots : EthInserted(r)
    \/ \E r \in Slots : EthCommitted(r)
    \/ \E r \in Slots : ListStart(r)
    \/ \E r \in Slots : ListSelected(r)
    \/ \E r \in Slots : ListFetched(r)
    \/ \E r \in Slots : TemporalStart(r)
    \/ \E r \in Slots : TemporalBadId(r)
    \/ \E r \in Slots : TemporalSelected(r)
    \/ \E r \in Slots : TemporalFetched(r)
    \/ DbInsert
    \/ DbInsertFails
    \/ DbCommit
    \/ DbCommitFails
    \/ DbSelect
    \/ DbFetch

Spec == Init /\ [][Next]_vars

\* ------------------------------------------------------------ properties of the mirror service
\* the rows the request numbered q inserted
RowsOf(q) == {i \in 1..Len(owner) : owner[i] = q}

FetchKinds == {"bitcoin", "ethereum"}

\* the stages of the Bitcoin adapter that can fail: no endpoint configured,
\* getbestblockhash, getblock
AdapterCauses == {"config", "rpc1", "rpc2"}

\* C1: whenever the Bitcoin fetch adapter fails during POST
\* /mirror/bitcoin/fetch (unconfigured, or at either RPC call), the handler
\* answers with an error status, the step that answers leaves the mirrors
\* table and what is committed of it as they were, and no row of the table was
\* inserted by the failed request.
C1_NoPartialWriteOnAdapterFailure ==
    [][(last' # last /\ last'.kind = "bitcoin" /\ last'.cause \in AdapterCauses)
         => /\ last'.resp.status >= 400
            /\ mirrors' = mirrors
            /\ durable' = durable
            /\ \A i \in 1..Len(owner') : owner'[i] # last'.req]_vars

\* the adapter failed at getblock while the table held a row of an earlier fetch
C1_Witness ==
    /\ last.kind = "bitcoin" /\ last.cause = "rpc2"
    /\ Len(mirrors) >= 1

\* C2: the store is append-only: whatever step is taken, every row of the
\* table is still there afterwards, at the same place, with the same id,
\* chain, block_number, block_hash, merkle_root, timestamp and payload.
C2_AppendOnly ==
    [][\A i \in 1..Len(mirrors) : i <= Len(mirrors') /\ mirrors'[i] = mirrors[i]]_vars

\* two fetches have stored a row each and a list request was answered after them
C2_Witness ==
    /\ Len(mirrors) >= 2
    /\ last.kind = "list" /\ Len(last.resp.mirrors) >= 1

\* C3: the store does not deduplicate: the rows of the table have distinct
\* ids also when they agree on chain and height, a fetch answered with 200 has
\* inserted exactly one row, a lookup by a row's id yields that row, and a GET
\* /mirror/{id}/temporal for an id the table held when the request arrived is
\* answered with 200 and that row's anchor.
C3_NoDeduplication ==
    /\ \A i, j \in 1..Len(mirrors) : i # j => mirrors[i].id # mirrors[j].id
    /\ \A i \in 1..Len(mirrors) : SelectById(mirrors, mirrors[i].id) = <<mirrors[i]>>
    /\ (last.kind \in FetchKinds /\ last.resp.status = 200)
          => Cardinality(RowsOf(last.req)) = 1
    /\ (last.kind = "temporal" /\ last.mid \in last.seen)
          => /\ last.resp.status = 200
             /\ \E i \in 1..Len(mirrors) :
                   /\ mirrors[i].id = last.mid
                   /\ last.resp.puzzle.initial_hash = mirrors[i].merkle_root

\* two mock fetches of the same second have stored the same block twice, and
\* the second row was retrieved by its id
C3_Witness ==
    /\ Len(mirrors) = 2
    /\ mirrors[1].chain = mirrors[2].chain
    /\ mirrors[1].block_number = mirrors[2].block_number
    /\ mirrors[1].payload = mirrors[2].payload
    /\ last.kind = "temporal" /\ last.resp.status = 200
    /\ last.mid = mirrors[2].id

PipelineOrder == <<"fetch", "canonicalize", "anchor", "append">>

IsPrefix(a, b) == Len(a) <= Len(b) /\ \A i \in 1..Len(a) : a[i] = b[i]

\* 64 hex digits
IsAnchor(h) == Len(h) = 64 /\ \A i \in 1..Len(h) : HexValue(h[i]) < 16

\* the stages of the fetch requests are in order and every row is complete
OrderedAndComplete ==
    /\ \A r \in Slots :
          slot[r].kind \in FetchKinds
            => /\ IsPrefix(slot[r].steps, PipelineOrder)
               /\ RowsOf(slot[r].req) # {} => slot[r].steps = PipelineOrder
    /\ last.kind \in FetchKinds
          => /\ IsPrefix(last.steps, PipelineOrder)
             /\ RowsOf(last.req) # {} => last.steps = PipelineOrder
             /\ last.resp.status = 200
                   => last.steps = PipelineOrder /\ IsAnchor(last.resp.merkle_root)
    /\ \A i \in 1..Len(mirrors) :
          IsAnchor(mirrors[i].merkle_root) /\ mirrors[i].payload # <<>>
    /\ last.kind = "list"
          => \A i \in 1..Len(last.resp.mirrors) : IsAnchor(last.resp.mirrors[i].merkle_root)
    /\ (last.kind = "temporal" /\ last.resp.status = 200)
          => IsAnchor(last.resp.puzzle.initial_hash)

\* a row that a step adds carries the hash of the canonical bytes of its payload
AnchoredWhenAppended ==
    \A i \in (Len(mirrors) + 1)..Len(mirrors') : \A row \in {mirrors'[i]} :
        row.merkle_root = _sha256d(json_dumps(json_loads(row.payload), ",", ":", TRUE))

\* C4: within one fetch request the stages are passed in the order fetch,
\* canonicalize, anchor, append: the stages a request has passed are always a
\* prefix of that order, and a row of the request exists only when all four
\* are passed.  Every row of the table, and so every entry a reader is shown,
\* is complete: its merkle_root is 64 hex digits, its payload is not empty, and
\* from the step that appends it the merkle_root is the hash of the canonical
\* bytes of that payload.
C4_OrderedAndComplete == []OrderedAndComplete /\ [][AnchoredWhenAppended]_vars

\* a reader lists the row of a Bitcoin fetch that has not yet been answered
C4_Witness ==
    /\ last.kind = "list" /\ Len(last.resp.mirrors) = 1
    /\ \E r \in Slots : slot[r].kind = "bitcoin" /\ slot[r].steps = PipelineOrder

\* the INSERT of the request in s has run
Inserted(s) ==
    /\ s.kind \in FetchKinds
    /\ s.pc = "commit" \/ (s.pc = "insert" /\ s.ready /\ ~s.dberr)

\* C5: fetch requests that overlap do not disturb one another: a request
\* whose INSERT has run has exactly one row, with the values it bound, whatever
\* the other requests did since; the ids grow along the table, so no two rows
\* share one; a fetch fails only when its upstream call, its canonicalization
\* or a statement of the store fails, and mock fetches, which have none of
\* these, all succeed when no statement fails.
C5_ConcurrentFetchesBothStored ==
    /\ \A r \in Slots :
          Inserted(slot[r])
            => \E i \in 1..Len(mirrors) :
                  /\ RowsOf(slot[r].req) = {i}
                  /\ mirrors[i] = [slot[r].params EXCEPT !.id = mirrors[i].id]
    /\ \A r \in Slots :
          (slot[r].kind \in FetchKinds /\ ~Inserted(slot[r])) => RowsOf(slot[r].req) = {}
    /\ \A i, j \in 1..Len(mirrors) : i < j => mirrors[i].id < mirrors[j].id
    /\ last.kind \in FetchKinds => (last.resp.status = 200 <=> last.cause = "")
    /\ (last.kind \in FetchKinds /\ last.cause # "" /\ dberrors = 0)
          => last.cause \in {"config", "rpc1", "rpc2", "rpc", "canonicalize"}
    /\ (env.mock /\ dberrors = 0 /\ last.kind = "bitcoin") => last.resp.status = 200

\* two Bitcoin fetches overlapped: the second was answered with 200 while the
\* first, whose row is stored too, has not yet committed
C5_Witness ==
    /\ last.kind = "bitcoin" /\ last.req = 2 /\ last.resp.status = 200
    /\ \E r \in Slots :
          slot[r].kind = "bitcoin" /\ slot[r].req = 1 /\ Inserted(slot[r])
    /\ Len(mirrors) = 2

C12_Original ==
    (last.kind = "bitcoin" /\ ~env.mock /\ ~env.bitcoin_rpc_url)
      => /\ last.resp.status \in 400..499
         /\ last.steps = <<>>
         /\ RowsOf(last.req) = {}

\* C13 as stated: POST /mirror/ethereum/fetch without WEB3_URL is answered 400
\* 'WEB3_URL not configured', with no upstream call and no row of the request;
\* with WEB3_URL, a request that fails at the upstream call or at any later
\* step is answered 500 and the table holds no row of it.
C13_Original ==
    /\ (last.kind = "ethereum" /\ ~env.web3_url)
          => /\ last.resp.status = 400
             /\ last.resp.error = "WEB3_URL not configured"
             /\ last.steps = <<>>
             /\ RowsOf(last.req) = {}
    /\ (last.kind = "ethereum" /\ env.web3_url /\ last.cause # "")
          => /\ last.resp.status = 500
             /\ RowsOf(last.req) = {}

\* C15 as stated: GET /mirror/{id}/temporal for an identifier that no row has
\* is answered 404 'not found' with no encoding; it is answered 200 only for an
\* identifier that a row has, and always when the table held the identifier as
\* the request arrived; the request inserts no row.
C15_Original ==
    last.kind = "temporal"
      => /\ (\A i \in 1..Len(mirrors) : mirrors[i].id # last.mid)
               => /\ last.resp.status = 404
                  /\ last.resp.error = "not found"
                  /\ last.resp.scale_hex = <<>> /\ last.resp.scale_b64 = <<>>
         /\ last.resp.status = 200 => \E i \in 1..Len(mirrors) : mirrors[i].id = last.mid
         /\ last.mid \in last.seen => last.resp.status = 200
         /\ RowsOf(last.req) = {}

\* C16 as stated: while a Bitcoin fetch waits for the reply of an upstream RPC
\* call, other handlers can run: a GET /mirrors that arrives is accepted (when
\* a slot is free and requests are still to come), and a GET /mirrors whose
\* statement the db thread has run is resumed.
C16_Original ==
    \A r \in Slots :
        (slot[r].kind = "bitcoin" /\ slot[r].pc \in {"rpc1", "rpc2"})
          => /\ (started < MaxRequests /\ \E q \in Slots : IsFree(q))
                   => \E q \in Slots : ENABLED ListStart(q)
             /\ \A q \in Slots :
                   (slot[q].kind = "list" /\ slot[q].ready)
                     => ENABLED (ListSelected(q) \/ ListFetched(q))

\* how far a fetch handler has come
PcRank(pc) ==
    CASE pc \in {"rpc1", "rpc"} -> 1
      [] pc = "rpc2" -> 2
      [] pc = "insert" -> 3
      [] pc = "commit" -> 4
      [] OTHER -> 0

\* a fetch request never goes back to a call it has made
NoRetry ==
    \A r \in Slots :
        (slot[r].kind \in FetchKinds /\ slot'[r].req = slot[r].req)
          => PcRank(slot'[r].pc) >= PcRank(slot[r].pc)

\* a fetch request has at most one row: one when it was answered 200, none
\* when it was answered with an error
OneRowPerFetch ==
    /\ \A r \in Slots :
          slot[r].kind \in FetchKinds => Cardinality(RowsOf(slot[r].req)) <= 1
    /\ last.kind \in FetchKinds
          => Cardinality(RowsOf(last.req)) = (IF last.resp.status = 200 THEN 1 ELSE 0)

\* C17 as stated: a fetch request is one attempt: the handler makes each call
\* of the adapter once and never again after a failure, and the request
\* appends exactly one row when it succeeds and none when it fails.
C17_Original == []OneRowPerFetch /\ [][NoRetry]_vars

\* C18 as stated: the payload text of every row is the canonical payload
\* byte for byte (keys sorted, separators ',' and ':'), and its double hash is
\* the row's merkle_root.
C18_Original ==
    \A i \in 1..Len(mirrors) :
        /\ mirrors[i].payload = json_dumps(json_loads(mirrors[i].payload), ",", ":", TRUE)
        /\ _sha256d(mirrors[i].payload) = mirrors[i].merkle_root

FixedKeys == {"chain", "height", "hash", "time", "tx_count", "tx"}

\* C19 as stated: the payload of every row, of a Bitcoin fetch and of an
\* Ethereum fetch alike, has exactly the keys chain, height, hash, time,
\* tx_count and tx, with tx the empty list for Ethereum, and what was hashed
\* is its serialization with the keys in sorted order.
C19_Original ==
    \A i \in 1..Len(mirrors) : \A d \in {json_loads(mirrors[i].payload)} :
        /\ {d[k].key : k \in 1..Len(d)} = FixedKeys
        /\ Len(d) = Cardinality(FixedKeys)
        /\ mirrors[i].chain = "ethereum"
              => \E k \in 1..Len(d) : d[k].key = "tx" /\ d[k].list /\ d[k].items = <<>>
        /\ mirrors[i].merkle_root = _sha256d(json_dumps(d, ",", ":", TRUE))

\* C21 as stated: no stored row has both its block_number and its block_hash
\* absent, whatever block description the upstream answered with a success
\* status.
C21_Original ==
    \A i \in 1..Len(mirrors) :
        ~(mirrors[i].block_number = PyNone /\ mirrors[i].block_hash = PyNone)

\* ------------------------------------------------------------ the encoder alone
\* POST /encode_temporal_lock of the immune service, and the encoder it calls,
\* on bodies drawn from bounded sets.

\* the longest initial_hash given, in characters after the prefix
MaxHexLen == 66
\* the largest tx identifier and the longest tx list given to the payload encoder
MaxTxId == 3
MaxTxLen == 3

\* 256^n - 1 and 256^n
AllOnes(n) == [neg |-> FALSE, mag |-> [i \in 1..n |-> 255]]
PowerOf256(n) == [neg |-> FALSE, mag |-> [i \in 1..(n + 1) |-> IF i = n + 1 THEN 1 ELSE 0]]
Negated(v) == [v EXCEPT !.neg = TRUE]

RevealTimes ==
    {BigInt(0), BigInt(1670000000), PowerOf256(4), AllOnes(8), PowerOf256(8),
     BigInt(-1), Negated(PowerOf256(8))}

Depths ==
    {BigInt(0), BigInt(1000), AllOnes(4), PowerOf256(4), PowerOf256(8), BigInt(-1000)}

\* n characters: pattern, repeated
Rep(pattern, n) == [i \in 1..n |-> pattern[((i - 1) % Len(pattern)) + 1]]

HashPatterns ==
    {<<"a", "b">>, <<"1", "2", "3", "4">>, <<"A", "f", "0", "9">>, <<"1", "2", "g">>,
     <<"c", "d", " ">>}

HashLengths == {0, 1, 2, 3, 4, 5, 6, 62, 63, 64, 65} \cup {MaxHexLen}

HashPrefixes == {<<>>, <<"0", "x">>, <<"0", "X">>}

InitialHashes ==
    {pre \o Rep(pat, n) : pre \in HashPrefixes, pat \in HashPatterns, n \in HashLengths}

Body(valid, puzzle) == [valid |-> valid, puzzle |-> puzzle]

\* the bodies: the puzzle is the dict under 'temporal_lock', or the body itself
EncBodies ==
    {Body(TRUE, Puzzle(AllKeys, rt, d, h)) :
        rt \in RevealTimes, d \in Depths, h \in InitialHashes}
    \cup {Body(TRUE, Puzzle(keys, BigInt(0), BigInt(0), <<>>)) : keys \in (SUBSET AllKeys) \ {AllKeys}}
    \cup {NoBody}

MirrorIdle ==
    /\ env = Env(FALSE, FALSE, FALSE)
    /\ clock = StartClock
    /\ mirrors = <<>>
    /\ sqlite_sequence = 0
    /\ durable = 0
    /\ owner = <<>>
    /\ dberrors = 0
    /\ slot = [r \in Slots |-> EmptySlot]
    /\ started = 0
    /\ loop = 0
    /\ dbq = <<>>
    /\ last = NothingSent

EncInit ==
    /\ MirrorIdle /\ BlkIdle /\ ImmIdle
    /\ enc_in \in EncBodies
    /\ enc_out = NotCalled
    /\ enc_resp = NoResponse

\* _scale_encode_temporal_lock is called on the puzzle
EncCall ==
    /\ enc_in.valid
    /\ enc_out = NotCalled
    /\ enc_out' = _scale_encode_temporal_lock(enc_in.puzzle)
    /\ UNCHANGED <<enc_in, enc_resp, mirror_vars, blk_vars, imm_vars>>

\* POST /encode_temporal_lock is served
EncHandle ==
    /\ enc_resp = NoResponse
    /\ enc_resp' = handle_encode_temporal_lock(enc_in)
    /\ UNCHANGED <<enc_in, enc_out, mirror_vars, blk_vars, imm_vars>>

EncNext == EncCall \/ EncHandle

EncSpec == EncInit /\ [][EncNext]_vars

\* ------------------------------------------------------------ properties of the encoder
\* v is within the unsigned range of width bytes
InRange(v, width) == ~(v.neg /\ SigLen(v.mag) > 0) /\ SigLen(v.mag) <= width

\* the little-endian bytes of a value in range
LittleEndian(v, width) == [i \in 1..width |-> IF i <= Len(v.mag) THEN v.mag[i] ELSE 0]

\* the string without a leading '0x'
Stripped(h) ==
    IF Len(h) >= 2 /\ h[1] = "0" /\ h[2] = "x" THEN [i \in 1..(Len(h) - 2) |-> h[i + 2]]
    ELSE h

HexOnly(h) == \A i \in 1..Len(h) : HexValue(h[i]) < 16

\* the 32 bytes of the first 64 digits of h, '0' standing where h has no digit
DigitAt(h, i) == IF i <= Len(h) THEN HexValue(h[i]) ELSE 0
ExpectedHash(h) ==
    [k \in 1..32 |-> 16 * DigitAt(Stripped(h), 2 * k - 1) + DigitAt(Stripped(h), 2 * k)]

\* the hex digit of a value 0..15
HexDigitOf(v) ==
    CASE v = 0 -> "0" [] v = 1 -> "1" [] v = 2 -> "2" [] v = 3 -> "3"
      [] v = 4 -> "4" [] v = 5 -> "5" [] v = 6 -> "6" [] v = 7 -> "7"
      [] v = 8 -> "8" [] v = 9 -> "9" [] v = 10 -> "a" [] v = 11 -> "b"
      [] v = 12 -> "c" [] v = 13 -> "d" [] v = 14 -> "e" [] v = 15 -> "f"

\* the text whose digits 2k-1 and 2k spell byte k, high digit first
IsHexTextOf(text, b) ==
    /\ Len(text) = 2 * Len(b)
    /\ \A k \in 1..Len(b) :
          /\ text[2 * k - 1] = HexDigitOf(b[k] \div 16)
          /\ text[2 * k] = HexDigitOf(b[k] % 16)

\* the puzzle has its three fields
FullPuzzle == enc_in.valid /\ enc_in.puzzle.keys = AllKeys

IntsInRange ==
    InRange(enc_in.puzzle.reveal_time, 8) /\ InRange(enc_in.puzzle.hash_chain_depth, 4)

\* the 44 bytes of the layout for the puzzle given
ExpectedBytes ==
    LittleEndian(enc_in.puzzle.reveal_time, 8)
    \o LittleEndian(enc_in.puzzle.hash_chain_depth, 4)
    \o ExpectedHash(enc_in.puzzle.initial_hash)

\* C8: for a puzzle with reveal_time in 0..2^64-1, hash_chain_depth in
\* 0..2^32-1 and an initial_hash of an even number of hex digits (with or
\* without '0x'), _scale_encode_temporal_lock returns exactly 44 bytes:
\* reveal_time as 8 little-endian bytes, hash_chain_depth as 4 little-endian
\* bytes, then the 32 hash bytes; POST /encode_temporal_lock answers 200 with
\* scale_hex = '0x' and the hex of those bytes, and scale_b64 their base64.
C8_Layout ==
    (/\ FullPuzzle /\ IntsInRange
     /\ HexOnly(Stripped(enc_in.puzzle.initial_hash))
     /\ Len(Stripped(enc_in.puzzle.initial_hash)) % 2 = 0)
      => /\ enc_out # NotCalled
               => /\ enc_out.ok
                  /\ Len(enc_out.value) = 44
                  /\ SubSeq(enc_out.value, 1, 8) = LittleEndian(enc_in.puzzle.reveal_time, 8)
                  /\ SubSeq(enc_out.value, 9, 12)
                        = LittleEndian(enc_in.puzzle.hash_chain_depth, 4)
                  /\ SubSeq(enc_out.value, 13, 44) = ExpectedHash(enc_in.puzzle.initial_hash)
         /\ enc_resp # NoResponse
               => /\ enc_resp.status = 200
                  /\ Len(enc_resp.scale_hex) = 90
                  /\ SubSeq(enc_resp.scale_hex, 1, 2) = <<"0", "x">>
                  /\ IsHexTextOf(SubSeq(enc_resp.scale_hex, 3, 90), ExpectedBytes)
                  /\ Len(enc_resp.scale_b64) = 60
                  /\ enc_resp.scale_b64 = b64encode(ExpectedBytes)

\* the puzzle of test_encode_temporal_lock (1670000000, 1000, '0x' + 'ab' * 32)
\* was encoded, to the bytes 80 2d 8a 63 00 00 00 00, e8 03 00 00, 32 times ab,
\* and the handler answered
C8_Witness ==
    /\ enc_in = Body(TRUE, Puzzle(AllKeys, BigInt(1670000000), BigInt(1000),
                                  <<"0", "x">> \o Rep(<<"a", "b">>, 64)))
    /\ enc_out.ok
    /\ enc_out.value = <<128, 45, 138, 99, 0, 0, 0, 0, 232, 3, 0, 0>> \o [i \in 1..32 |-> 171]
    /\ enc_resp.status = 200

\* the hex string decodes: hex digits only, and an even number of them unless
\* the padding to 64 makes it even
Decodes(h) == HexOnly(Stripped(h)) /\ (Len(Stripped(h)) <= 64 \/ Len(Stripped(h)) % 2 = 0)

\* C9 as amended: the encoder rejects out-of-range integers: for a negative
\* reveal_time or hash_chain_depth, or a value at or above 2^64 (reveal_time)
\* or 2^32 (hash_chain_depth), it returns no bytes but raises (struct.error
\* when the initial_hash decodes), and POST /encode_temporal_lock answers 500
\* 'encode_failed'.
C9_OutOfRangeRejected ==
    (FullPuzzle /\ ~IntsInRange)
      => /\ enc_out # NotCalled
               => /\ ~enc_out.ok
                  /\ enc_out.value = <<>>
                  /\ Decodes(enc_in.puzzle.initial_hash) => enc_out.err = "struct.error"
         /\ enc_resp # NoResponse
               => enc_resp.status = 500 /\ enc_resp.error = "encode_failed"

\* a reveal_time of 2^64 and a negative depth were given with a good hash
C9_Witness ==
    /\ FullPuzzle
    /\ enc_in.puzzle.reveal_time = PowerOf256(8)
    /\ enc_in.puzzle.hash_chain_depth = BigInt(-1000)
    /\ enc_in.puzzle.initial_hash = Rep(<<"a", "b">>, 64)
    /\ enc_out.err = "struct.error"
    /\ enc_resp.status = 500

\* C9 as stated: for out-of-range integers the encoder still returns 44
\* bytes, the field wrapped modulo 2^64 respectively 2^32
C9_Original ==
    (FullPuzzle /\ ~IntsInRange /\ Decodes(enc_in.puzzle.initial_hash) /\ enc_out # NotCalled)
      => /\ enc_out.ok
         /\ Len(enc_out.value) = 44
         /\ SubSeq(enc_out.value, 1, 8) = Wrapped(enc_in.puzzle.reveal_time, 8)
         /\ SubSeq(enc_out.value, 9, 12) = Wrapped(enc_in.puzzle.hash_chain_depth, 4)

\* C10 as amended: for an initial_hash of hex digits, with or without a
\* leading '0x', and integers in range: when the digits are at most 64, or
\* even in number, the encoder strips the prefix, pads with '0' digits on the
\* right to 64, keeps the first 32 decoded bytes and emits exactly 32 hash
\* bytes ('0x1234' gives 0x12 0x34 and thirty 0x00); when they are more
\* than 64 and odd in number it raises ValueError.
C10_HashNormalization ==
    (/\ FullPuzzle /\ IntsInRange
     /\ HexOnly(Stripped(enc_in.puzzle.initial_hash))
     /\ enc_out # NotCalled)
      => /\ IF Decodes(enc_in.puzzle.initial_hash)
            THEN /\ enc_out.ok
                 /\ Len(enc_out.value) = 44
                 /\ SubSeq(enc_out.value, 13, 44) = ExpectedHash(enc_in.puzzle.initial_hash)
            ELSE ~enc_out.ok /\ enc_out.err = "ValueError"
         /\ enc_in.puzzle.initial_hash = <<"0", "x", "1", "2", "3", "4">>
               => SubSeq(enc_out.value, 13, 44)
                    = <<18, 52>> \o [i \in 1..30 |-> 0]

\* '0x1234' was encoded
C10_Witness ==
    /\ FullPuzzle /\ IntsInRange
    /\ enc_in.puzzle.initial_hash = <<"0", "x", "1", "2", "3", "4">>
    /\ enc_out.ok

\* C10 as stated: for every hex string of any length, with or without a
\* leading '0x', the encoder emits exactly 32 hash bytes: the first 64 digits,
\* padded with '0' digits on the right
C10_Original ==
    (/\ FullPuzzle /\ IntsInRange
     /\ HexOnly(Stripped(enc_in.puzzle.initial_hash))
     /\ enc_out # NotCalled)
      => /\ enc_out.ok
         /\ Len(enc_out.value) = 44
         /\ SubSeq(enc_out.value, 13, 44) = ExpectedHash(enc_in.puzzle.initial_hash)

\* the initial_hash is given and, after the prefix, holds a character that is
\* no hex digit
HasNonHex == "initial_hash" \in enc_in.puzzle.keys /\ ~HexOnly(Stripped(enc_in.puzzle.initial_hash))

\* C11 as stated: an initial_hash with a non-hex character makes the encoder
\* raise, and POST /encode_temporal_lock then answers 400 or 500, never 200; a
\* body that is not valid JSON is answered with 400.
C11_Original ==
    /\ (enc_in.valid /\ HasNonHex)
          => /\ enc_out # NotCalled => ~enc_out.ok
             /\ enc_resp # NoResponse => enc_resp.status \in {400, 500}
    /\ (~enc_in.valid /\ enc_resp # NoResponse) => enc_resp.status = 400

\* ------------------------------------------------------------ the payload encoder alone
TxLists ==
    UNION {[1..n -> {PyHex(i) : i \in 1..MaxTxId}] : n \in 0..MaxTxLen}
    \cup {<<PyObj(1)>>, <<PyObj(1), PyObj(2)>>}

PayloadBlocks ==
    {Block(h, bh, PyInt(1000), tx, n, c) :
        h \in {PyInt(8), PyNone}, bh \in {PyHex(80), PyNone}, tx \in TxLists,
        n \in {PyNone, PyInt(99)}, c \in {PyNone, PyStr("ethereum")}}

\* the lists with the elements of xs in another order
Perms(xs) == {[i \in 1..Len(xs) |-> xs[p[i]]] : p \in Permutations(1..Len(xs))}

BlkInit ==
    /\ MirrorIdle /\ EncIdle /\ ImmIdle
    /\ blk_in \in PayloadBlocks
    /\ blk_perm \in {[blk_in EXCEPT !.tx = tx] : tx \in Perms(blk_in.tx)}
    /\ blk_out = <<>>

\* _compact_block_payload_bitcoin is called on the block and on its permutation
BlkEncode ==
    /\ blk_out = <<>>
    /\ blk_out' = <<_compact_block_payload_bitcoin(blk_in),
                    _compact_block_payload_bitcoin(blk_perm)>>
    /\ UNCHANGED <<blk_in, blk_perm, mirror_vars, enc_vars, imm_vars>>

BlkNext == BlkEncode

BlkSpec == BlkInit /\ [][BlkNext]_vars

\* ------------------------------------------------------------ properties of the payload encoder
\* a list of transaction identifiers (hex strings)
IsIdList(tx) == \A i \in 1..Len(tx) : tx[i].t = "hex"

\* C7: canonicalization is order-invariant: for a block and the same block
\* with its transaction identifier list in another order,
\* _compact_block_payload_bitcoin returns the same bytes, and so the same
\* anchor.
C7_OrderInvariant ==
    (blk_out # <<>> /\ IsIdList(blk_in.tx))
      => /\ blk_out[1].ok /\ blk_out[2].ok
         /\ blk_out[1].value = blk_out[2].value
         /\ _sha256d(blk_out[1].value) = _sha256d(blk_out[2].value)

\* a block of three identifiers and a true permutation of it were encoded
C7_Witness ==
    /\ blk_out # <<>>
    /\ IsIdList(blk_in.tx) /\ Len(blk_in.tx) = 3
    /\ blk_in.tx # blk_perm.tx
    /\ blk_out[1].ok

\* C20: in every payload the encoder produces, tx_count is the length of the
\* tx list of that payload (the number of identifiers of the block) and chain
\* is "bitcoin"; a tx_count or a chain the input block carries is not copied:
\* each of the two keys occurs once, with the derived value.
C20_TxCountDerived ==
    \A o \in 1..Len(blk_out) : \A b \in {IF o = 1 THEN blk_in ELSE blk_perm} :
        blk_out[o].ok =>
            \A d \in {json_loads(blk_out[o].value)} :
                /\ \E k \in 1..Len(d) : d[k].key = "tx" /\ d[k].list
                /\ \A k, c \in 1..Len(d) :
                      (d[k].key = "tx" /\ d[c].key = "tx_count")
                         => /\ ~d[c].list
                            /\ d[c].val = PyInt(Len(d[k].items))
                            /\ Len(d[k].items) = Len(b.tx)
                /\ \A c \in 1..Len(d) :
                      d[c].key = "chain" => ~d[c].list /\ d[c].val = PyStr("bitcoin")
                /\ Cardinality({c \in 1..Len(d) : d[c].key = "tx_count"}) = 1
                /\ Cardinality({c \in 1..Len(d) : d[c].key = "chain"}) = 1

\* a block of two identifiers that carries tx_count 99 and chain "ethereum"
\* was encoded
C20_Witness ==
    /\ blk_out # <<>> /\ blk_out[1].ok
    /\ blk_in.tx_count = PyInt(99) /\ blk_in.chain = PyStr("ethereum")
    /\ Len(blk_in.tx) = 2

\* ------------------------------------------------------------ the list endpoint on a long table
\* The mirror service started on a table that earlier runs have filled up to
\* the limit of GET /mirrors: list requests and mock fetches, with the db
\* thread, statement failures included.

\* the rows the table holds beyond the limit at the start, at most
MaxOver == 1

LstInit ==
    /\ env = Env(TRUE, FALSE, TRUE)
    /\ clock = StartClock
    /\ \E k \in (ListLimit - 1)..(ListLimit + MaxOver) :
          /\ mirrors = [i \in 1..k |-> PriorRow(i)]
          /\ sqlite_sequence = k
          /\ durable = k
          /\ owner = [i \in 1..k |-> 0]
    /\ dberrors = 0
    /\ slot = [r \in Slots |-> EmptySlot]
    /\ started = 0
    /\ loop = 0
    /\ dbq = <<>>
    /\ last = NothingSent
    /\ EncIdle /\ BlkIdle /\ ImmIdle

LstNext ==
    \/ \E r \in Slots : ListStart(r)
    \/ \E r \in Slots : ListSelected(r)
    \/ \E r \in Slots : ListFetched(r)
    \/ \E r \in Slots : BtcStartMock(r)
    \/ \E r \in Slots : BtcInserted(r)
    \/ \E r \in Slots : BtcCommitted(r)
    \/ DbInsert
    \/ DbInsertFails
    \/ DbCommit
    \/ DbCommitFails
    \/ DbSelect
    \/ DbFetch

LstSpec == LstInit /\ [][LstNext]_vars

\* ------------------------------------------------------------ properties of the list endpoint
Min(a, b) == IF a < b THEN a ELSE b

\* rows are the min(n, 100) rows of the table of n rows with the greatest ids,
\* the greatest id first
TopRows(rows, table) ==
    /\ Len(rows) = Min(Len(table), 100)
    /\ \A i \in 1..(Len(rows) - 1) : rows[i].id > rows[i + 1].id
    /\ \A i \in 1..Len(rows) : \E j \in 1..Len(table) : table[j] = rows[i]
    /\ \A j \in 1..Len(table) :
          (\A i \in 1..Len(rows) : rows[i] # table[j])
            => \A i \in 1..Len(rows) : table[j].id < rows[i].id

\* the SELECT of a list request yields the top rows of the table as it is then
SelectsTop ==
    \A r \in Slots :
        (slot[r].kind = "list" /\ slot[r].pc = "select" /\ ~slot[r].ready /\ slot'[r].ready)
          => \A rows \in {slot'[r].rows} : TopRows(rows, mirrors)

\* the answer of a list request is 200 with the six columns of the rows its
\* SELECT yielded, in their order
AnswersSelected ==
    \A r \in Slots :
        (slot[r].kind = "list" /\ slot[r].pc = "fetch" /\ slot'[r].pc = "idle")
          => \A out \in {last'.resp.mirrors} :
                /\ last'.kind = "list" /\ last'.req = slot[r].req
                /\ last'.resp.status = 200
                /\ Len(out) = Len(slot[r].rows)
                /\ \A i \in 1..Len(out) :
                      /\ out[i].id = slot[r].rows[i].id
                      /\ out[i].chain = slot[r].rows[i].chain
                      /\ out[i].block_number = slot[r].rows[i].block_number
                      /\ out[i].block_hash = slot[r].rows[i].block_hash
                      /\ out[i].merkle_root = slot[r].rows[i].merkle_root
                      /\ out[i].timestamp = slot[r].rows[i].timestamp

\* a row that is appended gets an id greater than every id assigned before
AppendGetsGreaterId ==
    \A i \in (Len(mirrors) + 1)..Len(mirrors') : \A row \in {mirrors'[i]} :
        /\ row.id > sqlite_sequence
        /\ \A j \in 1..Len(mirrors) : row.id > mirrors[j].id

\* the ids grow along the table, and a list that was answered is at most 100
\* entries in strictly descending order of id
ListedDescending ==
    /\ \A i \in 1..(Len(mirrors) - 1) : mirrors[i].id < mirrors[i + 1].id
    /\ last.kind = "list"
          => /\ Len(last.resp.mirrors) <= 100
             /\ \A i \in 1..(Len(last.resp.mirrors) - 1) :
                   last.resp.mirrors[i].id > last.resp.mirrors[i + 1].id

\* C14: GET /mirrors returns the min(n, 100) entries with the greatest ids
\* among the n entries the table holds when the request's SELECT runs, in
\* strictly descending order of id; that is newest-appended first, because
\* every append gets an id greater than every id assigned before it and so
\* the ids grow along the table.
C14_NewestFirstCapped ==
    []ListedDescending /\ [][SelectsTop /\ AnswersSelected /\ AppendGetsGreaterId]_vars

\* a list was answered with 100 entries out of more, the first of them the
\* row a fetch of this run appended last
C14_Witness ==
    /\ last.kind = "list" /\ Len(last.resp.mirrors) = 100
    /\ Len(mirrors) > 100
    /\ owner[Len(mirrors)] # 0
    /\ last.resp.mirrors[1].id = mirrors[Len(mirrors)].id

\* ------------------------------------------------------------ the immune service
\* POST /transaction of immune_service.py.  The immune system itself is a
\* collaborator whose monitor_transaction may append a ThreatData to
\* threat_log, may store a memory under a signature in a memory cell, and
\* returns a dict or None; the handler then persists through the shared
\* connection, one statement per await.

\* POST /transaction requests accepted in one run
MaxTransactions == 2
\* statements of the immune service that may raise in one run
MaxStorageErrors == 1
\* the signatures the memory cell may learn
NumSignatures == 2
\* the largest occurrence_count of a learned memory
MaxCount == 2

\* what monitoring the transaction numbered q may leave of memory_storage:
\* nothing new, or memory_storage[signature] = memory, where a known key
\* keeps its place
Learned(storage, q) ==
    {storage}
    \cup {LET item == [signature |-> g,
                       memory |-> [first_seen |-> q, last_seen |-> q,
                                   occurrence_count |-> c]]
          IN  IF \E i \in 1..Len(storage) : storage[i].signature = g
              THEN [i \in 1..Len(storage) |->
                       IF storage[i].signature = g THEN item ELSE storage[i]]
              ELSE Append(storage, item) : g \in 1..NumSignatures, c \in 1..MaxCount}

\* the handler awaits a statement
TxnAwait(s, pc) == [s EXCEPT !.pc = pc, !.ready = FALSE, !.dberr = FALSE]

\* the handler is left: by line 185 with status 200, or by an exception, which
\* aiohttp answers with 500
TxnRespond(s, status, cause) ==
    [s EXCEPT !.pc = "done", !.ready = FALSE, !.status = status, !.cause = cause]

\* a step of the handler in slot r leaves it as s: answered, or suspended at
\* the next statement, which is queued
TxnStep(r, s) ==
    /\ txn' = [txn EXCEPT ![r] = IF s.pc = "done" THEN EmptyTxn ELSE s]
    /\ txn_last' = IF s.pc = "done" THEN s ELSE txn_last
    /\ txn_dbq' = IF s.pc = "done" THEN txn_dbq ELSE Append(txn_dbq, r)
    /\ UNCHANGED <<threats, saved_by, responses, memories, txn_dberrors>>
    /\ UNCHANGED <<mirror_vars, enc_vars, blk_vars>>

\* a faulty handler: the loop over the memories is not guarded
Uncaught(s, cause) == TxnRespond(s, 500, cause)

\* lines 181-185: except Exception: pass, then the answer
Caught(s, cause) == TxnRespond(s, 200, cause)

\* the next item of memory_storage.items() (a dict that changed size raises
\* RuntimeError), and save_memory up to its first await; after the last
\* item, the answer
NextMemory(s, storage) ==
    IF Len(storage) # s.di_used THEN Caught(s, "RuntimeError")
    ELSE IF s.di_pos = Len(storage) THEN TxnRespond(s, 200, "")
    ELSE [TxnAwait(s, "mem_select") EXCEPT
             !.di_pos = @ + 1,
             !.signature = storage[s.di_pos + 1].signature,
             !.memory = storage[s.di_pos + 1].memory,
             !.row = FALSE,
             !.existing = EmptyTxn.existing]

\* lines 173-179: if result, save_response; else the loop over the memory
\* cells begins
AfterThreat(s, storage) ==
    IF s.result # "None" THEN TxnAwait(s, "response_insert")
    ELSE NextMemory([s EXCEPT !.di_used = Len(storage), !.di_pos = 0], storage)

\* lines 169-171: if immune.threat_log, save_threat(threat_log[-1])
AfterMonitor(s, log, storage) ==
    IF log # <<>>
    THEN [TxnAwait(s, "threat_insert") EXCEPT !.last_threat = log[Len(log)]]
    ELSE AfterThreat(s, storage)

\* lines 109-118: need_update
need_update(existing, memory) ==
    IF existing.found
    THEN \/ memory.last_seen > existing.last_seen
         \/ memory.occurrence_count > existing.occurrence_count
    ELSE TRUE

\* POST /transaction arrives, a slot being free (the first free one is
\* taken): request.json() raises for a body that is not JSON; otherwise the
\* monitor runs, and the handler goes on to its first statement
TxnStart(r) ==
    /\ txn[r].pc = "idle"
    /\ \A q \in 1..(r - 1) : txn[q].pc # "idle"
    /\ txn_started < MaxTransactions
    /\ txn_started' = txn_started + 1
    /\ \E valid, th \in BOOLEAN, result \in {"FLAG", "None"} :
       \E storage \in Learned(memory_storage, txn_started + 1) :
          LET q == txn_started + 1
              s == [EmptyTxn EXCEPT !.req = q]
              log == IF th THEN Append(threat_log, q) ELSE threat_log
          IN  IF valid
              THEN /\ threat_log' = log
                   /\ memory_storage' = storage
                   /\ detected' = IF th THEN detected \cup {q} ELSE detected
                   /\ TxnStep(r, AfterMonitor([s EXCEPT !.result = result], log, storage))
              ELSE /\ ~th /\ result = "None" /\ storage = memory_storage
                   /\ TxnStep(r, TxnRespond(s, 500, "json"))
                   /\ UNCHANGED <<threat_log, memory_storage, detected>>

\* save_threat: its INSERT, then its commit, returns to the handler or raises
save_threat(r) ==
    /\ txn[r].pc \in {"threat_insert", "threat_commit"} /\ txn[r].ready
    /\ TxnStep(r, IF txn[r].dberr THEN TxnRespond(txn[r], 500, "save_threat")
                  ELSE IF txn[r].pc = "threat_insert" THEN TxnAwait(txn[r], "threat_commit")
                  ELSE AfterThreat(txn[r], memory_storage))
    /\ UNCHANGED <<threat_log, memory_storage, detected, txn_started>>

\* save_response: its INSERT, then its commit, returns to the handler or
\* raises; after it the loop over the memory cells begins (lines 177-179)
save_response(r) ==
    /\ txn[r].pc \in {"response_insert", "response_commit"} /\ txn[r].ready
    /\ TxnStep(r, IF txn[r].dberr THEN TxnRespond(txn[r], 500, "save_response")
                  ELSE IF txn[r].pc = "response_insert"
                  THEN TxnAwait(txn[r], "response_commit")
                  ELSE NextMemory([txn[r] EXCEPT !.di_used = Len(memory_storage),
                                                 !.di_pos = 0], memory_storage))
    /\ UNCHANGED <<threat_log, memory_storage, detected, txn_started>>

\* save_memory: one of its awaits returns or raises.  SELECT id, fetchone;
\* for a known signature SELECT last_seen..., fetchone, and the UPDATE if
\* need_update; for a new one the INSERT; then the commit, and the loop of
\* the handler goes on
save_memory(r) ==
    /\ txn[r].pc \in {"mem_select", "mem_fetch", "mem_select2", "mem_fetch2", "mem_update",
                      "mem_insert", "mem_commit"}
    /\ txn[r].ready
    /\ LET s == txn[r]
       IN  TxnStep(r,
              IF s.dberr THEN Caught(s, "save_memory")
              ELSE IF s.pc = "mem_select" THEN TxnAwait(s, "mem_fetch")
              ELSE IF s.pc = "mem_fetch"
                   THEN TxnAwait(s, IF s.row THEN "mem_select2" ELSE "mem_insert")
              ELSE IF s.pc = "mem_select2" THEN TxnAwait(s, "mem_fetch2")
              ELSE IF s.pc = "mem_fetch2"
                   THEN TxnAwait(s, IF need_update(s.existing, s.memory) THEN "mem_update"
                                    ELSE "mem_commit")
              ELSE IF s.pc \in {"mem_update", "mem_insert"} THEN TxnAwait(s, "mem_commit")
              ELSE NextMemory([s EXCEPT !.written = @ + 1], memory_storage))
    /\ UNCHANGED <<threat_log, memory_storage, detected, txn_started>>

\* the db thread of the immune service has run the statement at the head of
\* the queue, one of those awaited at pcs, and left its slot as s
TxnDbRan(pcs, s) ==
    /\ txn_dbq # <<>>
    /\ txn[Head(txn_dbq)].pc \in pcs
    /\ ~txn[Head(txn_dbq)].ready
    /\ txn' = [txn EXCEPT ![Head(txn_dbq)] = [s EXCEPT !.ready = TRUE]]
    /\ txn_dbq' = Tail(txn_dbq)
    /\ UNCHANGED <<threat_log, memory_storage, detected, txn_started, txn_last>>
    /\ UNCHANGED <<mirror_vars, enc_vars, blk_vars>>

\* INSERT INTO threats
DbThreatInsert ==
    /\ TxnDbRan({"threat_insert"}, txn[Head(txn_dbq)])
    /\ threats' = Append(threats, [id |-> Len(threats) + 1,
                                   tx_hash |-> txn[Head(txn_dbq)].last_threat])
    /\ saved_by' = Append(saved_by, txn[Head(txn_dbq)].req)
    /\ UNCHANGED <<responses, memories, txn_dberrors>>

\* INSERT INTO responses
DbResponseInsert ==
    /\ TxnDbRan({"response_insert"}, txn[Head(txn_dbq)])
    /\ responses' = Append(responses, [id |-> Len(responses) + 1,
                                       tx_hash |-> txn[Head(txn_dbq)].req])
    /\ UNCHANGED <<threats, saved_by, memories, txn_dberrors>>

\* db.commit(), and cur.fetchone() of a statement already stepped
DbImmReturns ==
    /\ TxnDbRan({"threat_commit", "response_commit", "mem_commit", "mem_fetch", "mem_fetch2"},
                txn[Head(txn_dbq)])
    /\ UNCHANGED <<threats, saved_by, responses, memories, txn_dberrors>>

\* SELECT id, and SELECT last_seen, occurrence_count, data, WHERE signature = ?:
\* the statement is stepped to its first row when it is executed
DbMemSelect ==
    /\ TxnDbRan({"mem_select", "mem_select2"},
                LET s == txn[Head(txn_dbq)]
                    found == {i \in 1..Len(memories) : memories[i].signature = s.signature}
                IN  IF s.pc = "mem_select" THEN [s EXCEPT !.row = found # {}]
                    ELSE IF found = {} THEN s
                    ELSE [s EXCEPT !.existing =
                             LET i == CHOOSE i \in found : TRUE
                             IN  [found |-> TRUE, last_seen |-> memories[i].last_seen,
                                  occurrence_count |-> memories[i].occurrence_count]])
    /\ UNCHANGED <<threats, saved_by, responses, memories, txn_dberrors>>

\* UPDATE memories SET last_seen, occurrence_count, data WHERE signature = ?
DbMemUpdate ==
    /\ TxnDbRan({"mem_update"}, txn[Head(txn_dbq)])
    /\ LET s == txn[Head(txn_dbq)]
       IN  memories' =
              [i \in 1..Len(memories) |->
                  IF memories[i].signature = s.signature
                  THEN [memories[i] EXCEPT
                           !.last_seen = s.memory.last_seen,
                           !.occurrence_count = s.memory.occurrence_count,
                           !.data = s.memory]
                  ELSE memories[i]]
    /\ UNCHANGED <<threats, saved_by, responses, txn_dberrors>>

\* INSERT INTO memories: signature is UNIQUE, a second row raises IntegrityError
DbMemInsert ==
    LET s == txn[Head(txn_dbq)]
        dup == \E i \in 1..Len(memories) : memories[i].signature = s.signature
    IN  /\ TxnDbRan({"mem_insert"}, [s EXCEPT !.dberr = dup])
        /\ memories' =
              IF dup THEN memories
              ELSE Append(memories,
                          [signature |-> s.signature, first_seen |-> s.memory.first_seen,
                           last_seen |-> s.memory.last_seen,
                           occurrence_count |-> s.memory.occurrence_count,
                           data |-> s.memory])
        /\ UNCHANGED <<threats, saved_by, responses, txn_dberrors>>

\* a statement raises (the database is locked, the disk is full)
DbImmFails ==
    /\ txn_dberrors < MaxStorageErrors
    /\ txn_dberrors' = txn_dberrors + 1
    /\ TxnDbRan({"threat_insert", "threat_commit", "response_insert", "response_commit",
                 "mem_select", "mem_fetch", "mem_select2", "mem_fetch2", "mem_update",
                 "mem_insert", "mem_commit"},
                [txn[Head(txn_dbq)] EXCEPT !.dberr = TRUE])
    /\ UNCHANGED <<threats, saved_by, responses, memories>>

\* create_app has run: a new immune system, and the tables of earlier runs,
\* where the memories table may hold a row
ImmInit ==
    /\ threat_log = <<>> /\ memory_storage = <<>>
    /\ threats = <<>> /\ saved_by = <<>> /\ detected = {}
    /\ responses = <<>>
    /\ memories \in {<<>>, <<[signature |-> 1, first_seen |-> 0, last_seen |-> 0,
                              occurrence_count |-> 1,
                              data |-> [first_seen |-> 0, last_seen |-> 0,
                                        occurrence_count |-> 1]]>>}
    /\ txn = [r \in Slots |-> EmptyTxn]
    /\ txn_started = 0 /\ txn_dbq = <<>> /\ txn_dberrors = 0
    /\ txn_last = EmptyTxn
    /\ MirrorIdle /\ EncIdle /\ BlkIdle

ImmNext ==
    \/ \E r \in Slots : TxnStart(r)
    \/ \E r \in Slots : save_threat(r)
    \/ \E r \in Slots : save_response(r)
    \/ \E r \in Slots : save_memory(r)
    \/ DbThreatInsert
    \/ DbResponseInsert
    \/ DbImmReturns
    \/ DbMemSelect
    \/ DbMemUpdate
    \/ DbMemInsert
    \/ DbImmFails

ImmSpec == ImmInit /\ [][ImmNext]_vars

\* ------------------------------------------------------------ properties of the immune service
\* the positions of the handler inside the loop over the memories
MemoryPcs ==
    {"mem_select", "mem_fetch", "mem_select2", "mem_fetch2", "mem_update", "mem_insert",
     "mem_commit"}

\* C22: a storage error while the learned memories are persisted never fails
\* the request: whichever statement of whichever save_memory call raised, the
\* handler answers 200 with the monitor's result when it is resumed, and no
\* request that got as far as the memories is answered otherwise.
C22_MemoryErrorsSwallowed ==
    /\ [](txn_last.cause \in {"save_memory", "RuntimeError"} => txn_last.status = 200)
    /\ [][\A r \in Slots :
             (txn[r].pc \in MemoryPcs /\ txn[r].ready /\ txn'[r] # txn[r])
                => /\ txn'[r].pc = "idle"
                      => /\ txn_last'.req = txn[r].req
                         /\ txn_last'.status = 200
                         /\ txn_last'.result = txn[r].result
                         /\ txn[r].dberr => txn_last'.cause = "save_memory"
                   /\ txn[r].dberr => txn'[r].pc = "idle"]_vars

\* a request was answered 200 after a statement of its second save_memory
\* call raised, the first memory written
C22_Witness ==
    /\ txn_last.cause = "save_memory"
    /\ txn_last.written = 1
    /\ txn_last.status = 200
    /\ txn_last.result = "FLAG"
    /\ txn_dberrors = 1

\* C23 as stated: a threats row is inserted only by a request whose own
\* monitoring appended to threat_log.
C23_Original == \A i \in 1..Len(saved_by) : saved_by[i] \in detected

\* at most one row of the memories table per signature
OneRowPerSignature ==
    \A i, j \in 1..Len(memories) :
        memories[i].signature = memories[j].signature => i = j

\* rows stay, with their signature and first_seen
FirstSeenKept ==
    /\ Len(memories') >= Len(memories)
    /\ \A i \in 1..Len(memories) :
          /\ memories'[i].signature = memories[i].signature
          /\ memories'[i].first_seen = memories[i].first_seen

\* a row is rewritten only with a greater last_seen or occurrence_count than
\* it holds
RewrittenForward ==
    \A i \in 1..Len(memories) :
        memories'[i] # memories[i]
           => \/ memories'[i].last_seen > memories[i].last_seen
              \/ memories'[i].occurrence_count > memories[i].occurrence_count

\* C24 as stated: under every interleaving of save_memory calls the table
\* holds at most one row per signature, first_seen never changes after the
\* insert, and an existing row is rewritten only by a call whose last_seen or
\* occurrence_count is greater than the stored value.
C24_Original ==
    /\ []OneRowPerSignature
    /\ [][FirstSeenKept /\ RewrittenForward]_vars

====
